---- MODULE Spec2Model ----
(***************************************************************************)
(* AlphaSpike: the tiered feature-result cache (src/alphaspike/cache.py,   *)
(* src/alphaspike/db.py), the scan orchestrator                            *)
(* (src/alphaspike/scanner.py), return attribution (src/common/returns.py) *)
(* and the yearly backtest (src/backtest/backtest.py).                     *)
(*                                                                         *)
(* Python's None is the empty tuple NoneVal and a present value x is the   *)
(* one-element tuple Some(x), so that an empty hit list (Some(<<>>)) and   *)
(* "absent" (NoneVal) stay different values.                               *)
(***************************************************************************)
EXTENDS Integers, Sequences, FiniteSets, TLC

VARIABLES
    hot,        \* Redis: cache key string -> NoneVal | Some(JSON text)
    cold,       \* SQLite feature_result: (feature_name, scan_date) -> NoneVal | Some(JSON text)
    last,       \* the cache call that returned last: what it was given and what it gave
    lastPut,    \* per key: the list of the last set_feature_cache that wrote both tiers
    world,      \* daily_bar rows and detector behaviour per symbol, fixed for a scan
    call,       \* the scan_feature call in progress: its arguments, and which reachable tier held the key
    scan,       \* scan_feature's locals: position, resolved futures, signals, counters
    scanResult, \* what scan_feature gave: NoneVal | Some(ScanResult)
    cacheOps,   \* the cache calls scan_feature made, in order
    periodCall, \* a calculate_period_returns call: its arguments and what it gave
    btCall,     \* the backtest_year call: its arguments and the daily_bar table
    bt,         \* backtest_year's locals
    btResult,   \* what backtest_year returned, NoneVal before that
    statsCall,  \* a _calculate_yearly_stats call: its results argument and what it gave
    cliRun,     \* a run of the scan CLI: its arguments, its scan calls, its exit code
    procs       \* concurrent cache calls on one key: per process its call and position

cacheVars == <<hot, cold, last, lastPut>>

scanVars == <<world, call, scan, scanResult, cacheOps>>

btVars == <<btCall, bt, btResult>>

otherVars == <<statsCall, cliRun, procs>>

vars ==
    <<hot, cold, last, lastPut, world, call, scan, scanResult, cacheOps, periodCall,
      btCall, bt, btResult, statsCall, cliRun, procs>>

NoneVal == <<>>

Some(x) == <<x>>

\* ------------------------------------------------------------------ bounds

\* Longest hit list handed to set_feature_cache.
MaxHits == 2

\* Size of the symbol universe (ts_codes) of a scan.
NumSymbols == 3

\* Largest max_workers of a scan.
MaxWorkers == 2

\* feature.min_days of the scanned feature, scaled down.
MinDays == 2

\* Trading days a frame handed to calculate_period_returns can span.
NumBars == 3

\* Symbols in the universe of a yearly backtest.
NumBtSymbols == 2

\* Trading days of the daily_bar table a backtest reads; the first one lies in
\* the year before the backtested one.
NumDays == 4

\* The largest holding_days a backtest is run with.
MaxHolding == 2

\* The longest results list handed to _calculate_yearly_stats on its own.
MaxResults == 3

\* ------------------------------------------------------------ cache: data

\* ts_codes, in the order get_ts_codes lists them.
SymbolNames == <<"000001.SZ", "600000.SH", "000002.SZ", "600519.SH", "300750.SZ">>

\* ts_codes used as hit-list members (the ones of tests/test_feature_db.py).
PutSymbols == {SymbolNames[1], SymbolNames[2]}

\* (feature_name, date) pairs the cache is exercised on.
CacheKeys == {<<"bbc", "20251220">>, <<"bullish_cannon", "20251221">>}

\* Duplicate-free lists of ts_codes of length <= MaxHits.
HitLists ==
    UNION {{s \in [1..n -> PutSymbols] : \A i, j \in 1..n : i # j => s[i] # s[j]}
              : n \in 0..MaxHits}

ToSet(s) == {s[i] : i \in 1..Len(s)}

\* json.dumps of a list of strings, as its sequence of tokens:
\* "[" item "," item ... "]".
JsonDumps(L) ==
    <<"[">> \o [i \in 1..(IF Len(L) = 0 THEN 0 ELSE 2 * Len(L) - 1) |->
                  IF i % 2 = 1 THEN L[(i + 1) \div 2] ELSE ","] \o <<"]">>

\* json.loads of such a text: the items between the brackets, commas dropped.
JsonLoads(t) == [i \in 1..((Len(t) - 1) \div 2) |-> t[2 * i]]

\* Python truthiness of what client.get returns: None and "" are falsy.
Truthy(v) == v # NoneVal /\ Len(v[1]) > 0

\* _get_feature_cache_key: "feature:{feature_name}:{date}".
FeatureCacheKey(k) == <<"feature", ":", k[1], ":", k[2]>>

HotKeys == {FeatureCacheKey(k) : k \in CacheKeys}

\* ------------------------------------------------------- cold tier (SQLite)

\* get_feature_result: the row's ts_codes decoded, or None.
GetFeatureResult(c, k) ==
    IF c[k] = NoneVal THEN NoneVal ELSE Some(JsonLoads(c[k][1]))

\* A save that merged the new list into the stored one instead of replacing it.
SaveFeatureResultMerging(c, k, L) ==
    [c EXCEPT ![k] =
        IF c[k] = NoneVal THEN Some(JsonDumps(L))
        ELSE Some(JsonDumps(JsonLoads(c[k][1]) \o
                 SelectSeq(L, LAMBDA x : x \notin ToSet(JsonLoads(c[k][1])))))]

\* save_feature_result: INSERT OR REPLACE of the encoded list under the primary key.
SaveFeatureResult(c, k, L) == [c EXCEPT ![k] = Some(JsonDumps(L))]

\* delete_feature_result: the row removed; rowcount > 0 is c[k] # NoneVal.
DeleteFeatureResult(c, k) == [c EXCEPT ![k] = NoneVal]

\* ------------------------------------------------------- hot tier (Redis)

\* client.set(key, value, ex=FEATURE_CACHE_TTL_SECONDS)
RedisSet(h, k, text) == [h EXCEPT ![FeatureCacheKey(k)] = Some(text)]

\* client.get(key)
RedisGet(h, k) == h[FeatureCacheKey(k)]

\* --------------------------------------------------- get_feature_cache
\* One call, start to finish, as a record: the two stores afterwards, the value
\* returned and the exception that escaped ("none", "hot": a redis error,
\* "cold": a sqlite error).  client is FALSE for client=None.  hf / cf number the
\* hot-tier / cold-tier call of this invocation that fails (0: none fails).
Outcome(h, c, ret, raised) == [hot |-> h, cold |-> c, ret |-> ret, raised |-> raised]

\* A cold lookup that returned the row without writing it to the hot tier.
ColdLookupOnly(h, c, k, client, hotCallsBefore, hf, cf) ==
    IF cf = 1 THEN Outcome(h, c, NoneVal, "cold")
    ELSE Outcome(h, c, GetFeatureResult(c, k), "none")

ColdLookupThenPopulate(h, c, k, client, hotCallsBefore, hf, cf) ==
    IF cf = 1 THEN Outcome(h, c, NoneVal, "cold")
    ELSE LET result == GetFeatureResult(c, k) IN
         IF result # NoneVal
         THEN IF client
              THEN IF hf = hotCallsBefore + 1
                   THEN Outcome(h, c, NoneVal, "hot")
                   ELSE Outcome(RedisSet(h, k, JsonDumps(result[1])), c, result, "none")
              ELSE Outcome(h, c, result, "none")
         ELSE Outcome(h, c, NoneVal, "none")

\* A lookup that took an empty stored list for a miss.
GetFeatureCacheNoEmpty(h, c, k, client, hf, cf) ==
    IF client /\ hf = 1 THEN Outcome(h, c, NoneVal, "hot")
    ELSE IF client /\ Truthy(RedisGet(h, k)) /\ Len(JsonLoads(RedisGet(h, k)[1])) > 0
         THEN Outcome(h, c, Some(JsonLoads(RedisGet(h, k)[1])), "none")
         ELSE IF GetFeatureResult(c, k) # NoneVal /\ Len(GetFeatureResult(c, k)[1]) > 0
              THEN Outcome(h, c, GetFeatureResult(c, k), "none")
              ELSE Outcome(h, c, NoneVal, "none")

\* get_feature_cache: the hot tier first (backfilling the cold tier on a hit),
\* then the cold tier (populating the hot tier on a hit), else None.
GetFeatureCache(h, c, k, client, hf, cf) ==
    IF client
    THEN IF hf = 1 THEN Outcome(h, c, NoneVal, "hot")
         ELSE LET cached == RedisGet(h, k) IN
              IF Truthy(cached)
              THEN LET result == JsonLoads(cached[1]) IN
                   \* backfill SQLite when it lacks the row
                   IF cf = 1 THEN Outcome(h, c, NoneVal, "cold")
                   ELSE IF GetFeatureResult(c, k) = NoneVal
                        THEN IF cf = 2 THEN Outcome(h, c, NoneVal, "cold")
                             ELSE Outcome(h, SaveFeatureResult(c, k, result),
                                          Some(result), "none")
                        ELSE Outcome(h, c, Some(result), "none")
              ELSE ColdLookupThenPopulate(h, c, k, client, 1, hf, cf)
    ELSE ColdLookupThenPopulate(h, c, k, client, 0, hf, cf)

\* A put that wrote the hot tier before the cold tier.
SetFeatureCacheHotFirst(h, c, k, L, client, hf, cf) ==
    IF client /\ hf = 1 THEN Outcome(h, c, NoneVal, "hot")
    ELSE LET h2 == IF client THEN RedisSet(h, k, JsonDumps(L)) ELSE h IN
         IF cf = 1 THEN Outcome(h2, c, NoneVal, "cold")
         ELSE Outcome(h2, SaveFeatureResult(c, k, L), NoneVal, "none")

\* --------------------------------------------------- set_feature_cache
SetFeatureCache(h, c, k, L, client, hf, cf) ==
    IF cf = 1 THEN Outcome(h, c, NoneVal, "cold")
    ELSE LET c2 == SaveFeatureResult(c, k, L) IN
         IF client
         THEN IF hf = 1 THEN Outcome(h, c2, NoneVal, "hot")
              ELSE Outcome(RedisSet(h, k, JsonDumps(L)), c2, NoneVal, "none")
         ELSE Outcome(h, c2, NoneVal, "none")

\* ------------------------------------------------------- cache: actions

NoPut == NoneVal

\* What the last cache call was given (key, client, the list of a put) and what it
\* gave (return value, exception; replaced: a put found a row holding another list;
\* hot_hit: a get found the key in the hot tier).
LastCall(op, k, client, arg, o) ==
    [op |-> op, key |-> k, client |-> client, arg |-> arg,
     replaced |-> op = "put" /\ cold[k] # NoneVal /\ o.cold[k] # cold[k],
     hot_hit |-> op = "get" /\ client /\ o.raised # "hot" /\ Truthy(RedisGet(hot, k)),
     ret |-> o.ret, raised |-> o.raised]

InitCache ==
    /\ hot = [hk \in HotKeys |-> NoneVal]
    /\ cold = [k \in CacheKeys |-> NoneVal]
    /\ last = [op |-> "init", key |-> <<"bbc", "20251220">>, client |-> FALSE,
               arg |-> NoneVal, replaced |-> FALSE, hot_hit |-> FALSE, ret |-> NoneVal,
               raised |-> "none"]
    /\ lastPut = [k \in CacheKeys |-> NoPut]
    /\ world = <<>>
    /\ call = NoneVal
    /\ scan = NoneVal
    /\ scanResult = NoneVal
    /\ cacheOps = <<>>
    /\ periodCall = NoneVal
    /\ statsCall = NoneVal
    /\ cliRun = NoneVal
    /\ procs = NoneVal
    /\ btCall = NoneVal
    /\ bt = NoneVal
    /\ btResult = NoneVal

\* The fault plans of one call: client=None makes no hot-tier call, so none can fail.
FaultPlans(hfs, cfs) ==
    {p \in [client : BOOLEAN, hf : hfs, cf : cfs] : ~p.client => p.hf = 0}

\* get(feature, date)
GetCall(k, p) ==
    LET o == GetFeatureCache(hot, cold, k, p.client, p.hf, p.cf) IN
    /\ hot' = o.hot
    /\ cold' = o.cold
    /\ last' = LastCall("get", k, p.client, NoneVal, o)
    /\ UNCHANGED <<lastPut, scanVars, periodCall, otherVars, btCall, bt, btResult>>

Get(cfs) == \E k \in CacheKeys, p \in FaultPlans(0..2, cfs) : GetCall(k, p)

\* put(feature, date, L)
PutCall(k, L, p) ==
    LET o == SetFeatureCache(hot, cold, k, L, p.client, p.hf, p.cf) IN
    /\ hot' = o.hot
    /\ cold' = o.cold
    /\ last' = LastCall("put", k, p.client, Some(L), o)
    /\ lastPut' = [lastPut EXCEPT ![k] =
                      IF o.raised = "cold" THEN @
                      ELSE IF p.client /\ o.raised = "none" THEN Some(L) ELSE NoPut]
    /\ UNCHANGED <<scanVars, periodCall, otherVars, btCall, bt, btResult>>

Put(cfs) ==
    \E k \in CacheKeys, L \in HitLists, p \in FaultPlans(0..1, cfs) : PutCall(k, L, p)

\* delete_feature_result(feature, date): the cold row only
Delete ==
    \E k \in CacheKeys :
        /\ cold' = DeleteFeatureResult(cold, k)
        /\ last' = [op |-> "delete", key |-> k, client |-> FALSE, arg |-> NoneVal,
                    replaced |-> FALSE, hot_hit |-> FALSE, ret |-> NoneVal, raised |-> "none"]
        /\ lastPut' = [lastPut EXCEPT ![k] = NoPut]
        /\ UNCHANGED <<hot, scanVars, periodCall, otherVars, btCall, bt, btResult>>

\* the hot entry's expiry (ex=FEATURE_CACHE_TTL_SECONDS) passes
ExpireHot ==
    \E k \in CacheKeys :
        /\ hot[FeatureCacheKey(k)] # NoneVal
        /\ hot' = [hot EXCEPT ![FeatureCacheKey(k)] = NoneVal]
        /\ UNCHANGED <<cold, last, lastPut, scanVars, periodCall, otherVars, btCall, bt, btResult>>

\* Single caller, cold tier healthy: hot-tier faults and client=None only.
NextCache == Get({0}) \/ Put({0}) \/ Delete \/ ExpireHot

SpecCache == InitCache /\ [][NextCache]_vars

\* ------------------------------------------------------- cache: claims

\* C1: with both tiers reachable, a get issued after put(feature, date, L), with
\* no put or delete for that key in between, returns exactly L (the empty list
\* included: it is a hit, not "absent").
C1_GetAfterPutReturnsL ==
    (/\ last.op = "get"
     /\ last.client
     /\ last.raised = "none"
     /\ lastPut[last.key] # NoPut)
        => /\ last.ret # NoneVal
           /\ last.ret = lastPut[last.key]
           /\ ToSet(last.ret[1]) = ToSet(lastPut[last.key][1])

\* A get that returned the empty list put before it, read back from the cold
\* tier after the hot entry expired.
C1_Witness ==
    /\ last.op = "get"
    /\ last.client
    /\ last.raised = "none"
    /\ lastPut[last.key] = Some(<<>>)
    /\ last.ret = Some(<<>>)
    /\ \E k \in CacheKeys : k # last.key /\ lastPut[k] = Some(<<"600000.SH", "000001.SZ">>)

\* C2: with the hot tier unreachable (client=None, or a hot-tier call that
\* fails) get and put behave as cold-tier-only operations and no exception
\* escapes: put stores L in the cold tier, get returns the cold tier's content.
C2_HotUnreachableIsColdOnly ==
    (/\ last.op \in {"get", "put"}
     /\ (~last.client \/ last.raised = "hot"))
        => /\ last.raised = "none"
           /\ last.op = "get" => last.ret = GetFeatureResult(cold, last.key)
           /\ last.op = "put" => GetFeatureResult(cold, last.key) = last.arg

\* C8: put(feature, date, L) replaces the hit list of exactly that key by L in
\* every tier it writes, and leaves every other key's hit list as it was.
C8_PutReplacesOnlyItsKey ==
    \A k \in CacheKeys, L \in HitLists, p \in FaultPlans(0..1, {0}) :
        LET o == SetFeatureCache(hot, cold, k, L, p.client, p.hf, p.cf) IN
        /\ GetFeatureResult(o.cold, k) = Some(L)
        /\ (p.client /\ p.hf = 0) => RedisGet(o.hot, k) = Some(JsonDumps(L))
        /\ \A k2 \in CacheKeys \ {k} :
              /\ GetFeatureResult(o.cold, k2) = GetFeatureResult(cold, k2)
              /\ RedisGet(o.hot, k2) = RedisGet(hot, k2)
        /\ (last.op = "put" /\ last.raised # "cold")
              => GetFeatureResult(cold, last.key) = last.arg

\* A put that replaced a longer, different list while the other key kept its own.
C8_Witness ==
    /\ last.op = "put"
    /\ last.raised = "none"
    /\ last.client
    /\ last.replaced
    /\ last.arg = Some(<<"600000.SH">>)
    /\ GetFeatureResult(cold, last.key) = Some(<<"600000.SH">>)
    /\ \E k \in CacheKeys : k # last.key /\ GetFeatureResult(cold, k) = Some(<<"000001.SZ">>)

\* ------------------------------------------------------------ scan: data

Symbols == {SymbolNames[i] : i \in 1..NumSymbols}

\* ts_codes: the symbol universe handed to scan_feature, duplicate-free.
TsCodes == [i \in 1..NumSymbols |-> SymbolNames[i]]

\* The key of the scan's cache record: (feature.name, end_date).
ScanKey == <<"bbc", "20251220">>

\* The names FEATURE_FUNCS maps to a detector in the scan worker.
FEATURE_FUNCS ==
    {"bbc", "volume_upper_shadow", "volume_stagnation", "high_retracement",
     "consolidation_breakout", "bullish_cannon"}

\* Rows a symbol has in daily_bar up to end_date: none, one short of min_days,
\* exactly min_days.
RowCounts == {0, MinDays - 1, MinDays}

\* What the detector does on the symbol's window (it is only ever called on a
\* window of at least min_days rows, so it stays "false" on the shorter ones).
SymbolData ==
    {d \in [rows : RowCounts, det : {"true", "false", "raise"}] :
        d.rows < MinDays => d.det = "false"}

Worlds == [Symbols -> SymbolData]

\* batch_load_daily_bars: one frame per symbol that has rows; a symbol without
\* rows has no group and is left out of the dict.
BatchLoadDailyBars(w, ts) ==
    [x \in {y \in ToSet(ts) : w[y].rows > 0} |-> w[x].rows]

\* get_daily_bar_from_db: the symbol's frame, empty when it has no rows.
GetDailyBarFromDb(w, ts_code) == w[ts_code].rows

\* df.to_json(): the frame as text, here one token per row (its index label).
DfToJson(rows) == [i \in 1..rows |-> i - 1]

\* pd.read_json(StringIO(df_json)): the frame rebuilt, one row per index label.
ReadJson(df_json) == Len(df_json)

\* A worker that ran the detector before it looked at the window's length.
ScanSymbolWorkerDetectorFirst(item, w) ==
    IF item.feature_name \notin FEATURE_FUNCS THEN <<item.ts_code, FALSE, "error">>
    ELSE IF w[item.ts_code].det = "raise" THEN <<item.ts_code, FALSE, "error">>
    ELSE IF ReadJson(item.df_json) < item.min_days THEN <<item.ts_code, FALSE, "skip">>
    ELSE <<item.ts_code, w[item.ts_code].det = "true", "ok">>

\* ------------------------------------------------------ _scan_symbol_worker
ScanSymbolWorker(item, w) ==
    LET df == ReadJson(item.df_json) IN
    IF df < item.min_days THEN <<item.ts_code, FALSE, "skip">>
    ELSE IF item.feature_name \notin FEATURE_FUNCS THEN <<item.ts_code, FALSE, "error">>
    ELSE IF w[item.ts_code].det = "raise" THEN <<item.ts_code, FALSE, "error">>
    ELSE <<item.ts_code, w[item.ts_code].det = "true", "ok">>

\* ---------------------------------------------------- _scan_feature_parallel

\* work_items, in ts_codes order: the symbols found in data_cache.
WorkItems(ts, data_cache, feature_name, min_days) ==
    LET present == SelectSeq(ts, LAMBDA x : x \in DOMAIN data_cache) IN
    [i \in 1..Len(present) |->
        [ts_code |-> present[i], df_json |-> DfToJson(data_cache[present[i]]),
         feature_name |-> feature_name, min_days |-> min_days]]

\* The futures a pool of max_workers processes is running: the pool starts the
\* submitted items in order, one per free process.
Running(work, resolved, max_workers) ==
    LET n == IF Len(work) < max_workers + Cardinality(resolved)
             THEN Len(work) ELSE max_workers + Cardinality(resolved)
    IN  {i \in 1..n : i \notin resolved}

\* A loop body that attributed a hit to the next work item in submission order
\* instead of to the ts_code the future returned.
CollectStepBySubmission(sc, i, w) ==
    LET r == ScanSymbolWorker(sc.work[i], w) IN
    [sc EXCEPT
        !.resolved = @ \cup {i},
        !.signals = IF r[3] = "ok" /\ r[2]
                    THEN Append(@, sc.work[sc.completed + 1].ts_code) ELSE @,
        !.skipped = IF r[3] = "skip" THEN @ + 1 ELSE @,
        !.errors = IF r[3] \notin {"ok", "skip"} THEN @ + 1 ELSE @,
        !.completed = @ + 1]

\* A loop body that appended every ok symbol, with or without a signal.
CollectStepIgnoringSignal(sc, i, w) ==
    LET r == ScanSymbolWorker(sc.work[i], w) IN
    [sc EXCEPT
        !.resolved = @ \cup {i},
        !.signals = IF r[3] = "ok" THEN Append(@, r[1]) ELSE @,
        !.skipped = IF r[3] = "skip" THEN @ + 1 ELSE @,
        !.errors = IF r[3] \notin {"ok", "skip"} THEN @ + 1 ELSE @,
        !.completed = @ + 1]

\* The body of "for future in as_completed(futures)" for the future of work
\* item i: the locals after it.
CollectStep(sc, i, w) ==
    LET r == ScanSymbolWorker(sc.work[i], w) IN
    [sc EXCEPT
        !.resolved = @ \cup {i},
        !.signals = IF r[3] = "ok" /\ r[2] THEN Append(@, r[1]) ELSE @,
        !.skipped = IF r[3] = "skip" THEN @ + 1 ELSE @,
        !.errors = IF r[3] \notin {"ok", "skip"} THEN @ + 1 ELSE @,
        !.completed = @ + 1]

\* ScanResult(...)
ScanResult(signals, from_cache, scanned, skipped, errors) ==
    [feature_name |-> ScanKey[1], signals |-> signals, from_cache |-> from_cache,
     scanned |-> scanned, skipped |-> skipped, errors |-> errors]

\* A return statement that did not take the preload-absent symbols out of
\* skipped when deriving scanned.
ParallelResultNoMissing(sc) ==
    ScanResult(sc.signals, FALSE, Len(sc.work) - sc.skipped - sc.errors,
               sc.skipped, sc.errors)

\* The ScanResult _scan_feature_parallel returns from its locals.
ParallelResult(sc) ==
    ScanResult(sc.signals, FALSE, Len(sc.work) - (sc.skipped - sc.missing) - sc.errors,
               sc.skipped, sc.errors)

\* -------------------------------------------------- _scan_feature_sequential

\* The for loop over ts_codes from index i on: signals, skipped, errors.
RECURSIVE SequentialLoop(_, _, _, _)
SequentialLoop(ts, i, acc, w) ==
    IF i > Len(ts) THEN acc
    ELSE LET df == GetDailyBarFromDb(w, ts[i]) IN
         SequentialLoop(ts, i + 1,
            IF df < MinDays THEN [acc EXCEPT !.skipped = @ + 1]
            ELSE IF w[ts[i]].det = "raise" THEN [acc EXCEPT !.errors = @ + 1]
            ELSE IF w[ts[i]].det = "true"
                 THEN [acc EXCEPT !.signals = Append(@, ts[i])]
                 ELSE acc,
            w)

SequentialResult(ts, w) ==
    LET acc == SequentialLoop(ts, 1, [signals |-> <<>>, skipped |-> 0, errors |-> 0], w)
    IN  ScanResult(acc.signals, FALSE, Len(ts) - acc.skipped - acc.errors,
                   acc.skipped, acc.errors)

\* ------------------------------------------------------------ scan: actions

Idle ==
    [pc |-> "idle", work |-> <<>>, missing |-> 0, resolved |-> {}, signals |-> <<>>,
     skipped |-> 0, errors |-> 0, completed |-> 0]

\* backtest_year's locals before the call; pc "off" when no backtest is modelled.
BtIdle ==
    [pc |-> "idle", work |-> <<>>, total_days |-> 0, total_stocks |-> 0,
     resolved |-> {}, all_results |-> <<>>, completed |-> 0, progress |-> <<>>]

\* The hit list an earlier scan may have left in a tier.
StaleHits == <<SymbolNames[1]>>

InitScan ==
    /\ \E h, c \in {NoneVal, Some(JsonDumps(StaleHits))} :
          /\ hot = [hk \in HotKeys |-> IF hk = FeatureCacheKey(ScanKey) THEN h ELSE NoneVal]
          /\ cold = [k \in CacheKeys |-> IF k = ScanKey THEN c ELSE NoneVal]
    /\ last = [op |-> "init", key |-> <<"bbc", "20251220">>, client |-> FALSE,
               arg |-> NoneVal, replaced |-> FALSE, hot_hit |-> FALSE, ret |-> NoneVal,
               raised |-> "none"]
    /\ lastPut = [k \in CacheKeys |-> NoPut]
    /\ world \in Worlds
    /\ call = NoneVal
    /\ scan = Idle
    /\ scanResult = NoneVal
    /\ cacheOps = <<>>
    /\ periodCall = NoneVal
    /\ statsCall = NoneVal
    /\ cliRun = NoneVal
    /\ procs = NoneVal
    /\ btCall = NoneVal
    /\ bt = [BtIdle EXCEPT !.pc = "off"]
    /\ btResult = NoneVal

\* The calls scan_feature can get: redis_client is "none" (None), "up", or
\* "down" (a client whose server stopped answering after get_redis_client's
\* ping); data_cache is given (parallel) or None; max_workers matters only to
\* the pool.
ScanCalls ==
    {a \in [use_cache : BOOLEAN, redis_client : {"none", "up", "down"},
            parallel : BOOLEAN, max_workers : 1..MaxWorkers] :
        ~a.parallel => a.max_workers = 1}

\* "if redis_client: set_feature_cache(...)" followed by the return statement.
PersistAndReturn(a, res) ==
    IF a.redis_client # "none"
    THEN LET o == SetFeatureCache(hot, cold, ScanKey, res.signals, TRUE,
                                  IF a.redis_client = "down" THEN 1 ELSE 0, 0) IN
         /\ hot' = o.hot
         /\ cold' = o.cold
         /\ cacheOps' = Append(cacheOps, "put")
         /\ IF o.raised = "none"
            THEN scanResult' = Some(res) /\ scan' = [scan EXCEPT !.pc = "done"]
            ELSE scanResult' = NoneVal /\ scan' = [scan EXCEPT !.pc = "raised"]
    ELSE /\ UNCHANGED <<hot, cold, cacheOps>>
         /\ scanResult' = Some(res)
         /\ scan' = [scan EXCEPT !.pc = "done"]

\* A dispatch that stored the still empty hit list when it submitted the work
\* items.
DispatchPuttingEarly(a, h, c, ops) ==
    IF a.parallel
    THEN LET work == WorkItems(TsCodes, BatchLoadDailyBars(world, TsCodes),
                               ScanKey[1], MinDays)
             missing == Len(TsCodes) - Len(work)
         IN  /\ hot' = h
             /\ cold' = IF Len(work) = 0 THEN c ELSE SaveFeatureResult(c, ScanKey, <<>>)
             /\ cacheOps' = IF Len(work) = 0 THEN ops ELSE Append(ops, "put")
             /\ IF Len(work) = 0
                THEN /\ scanResult' = Some(ScanResult(<<>>, FALSE, 0, missing, 0))
                     /\ scan' = [Idle EXCEPT !.pc = "done", !.missing = missing]
                ELSE /\ scanResult' = NoneVal
                     /\ scan' = [Idle EXCEPT !.pc = "collect", !.work = work,
                                             !.missing = missing, !.skipped = missing]
    ELSE LET res == SequentialResult(TsCodes, world)
             put == a.redis_client # "none"
             o == SetFeatureCache(h, c, ScanKey, res.signals, TRUE,
                                  IF a.redis_client = "down" THEN 1 ELSE 0, 0)
         IN  /\ hot' = IF put THEN o.hot ELSE h
             /\ cold' = IF put THEN o.cold ELSE c
             /\ cacheOps' = IF put THEN Append(ops, "put") ELSE ops
             /\ IF put /\ o.raised # "none"
                THEN scanResult' = NoneVal /\ scan' = [Idle EXCEPT !.pc = "raised"]
                ELSE scanResult' = Some(res) /\ scan' = [Idle EXCEPT !.pc = "done"]

\* scan_feature after the cache check: the parallel path up to the submission
\* of the work items, or the whole sequential path.
Dispatch(a, h, c, ops) ==
    IF a.parallel
    THEN LET work == WorkItems(TsCodes, BatchLoadDailyBars(world, TsCodes),
                               ScanKey[1], MinDays)
             missing == Len(TsCodes) - Len(work)
         IN  /\ hot' = h
             /\ cold' = c
             /\ cacheOps' = ops
             /\ IF Len(work) = 0
                THEN /\ scanResult' = Some(ScanResult(<<>>, FALSE, 0, missing, 0))
                     /\ scan' = [Idle EXCEPT !.pc = "done", !.missing = missing]
                ELSE /\ scanResult' = NoneVal
                     /\ scan' = [Idle EXCEPT !.pc = "collect", !.work = work,
                                             !.missing = missing, !.skipped = missing]
    ELSE LET res == SequentialResult(TsCodes, world)
             put == a.redis_client # "none"
             o == SetFeatureCache(h, c, ScanKey, res.signals, TRUE,
                                  IF a.redis_client = "down" THEN 1 ELSE 0, 0)
         IN  /\ hot' = IF put THEN o.hot ELSE h
             /\ cold' = IF put THEN o.cold ELSE c
             /\ cacheOps' = IF put THEN Append(ops, "put") ELSE ops
             /\ IF put /\ o.raised # "none"
                THEN scanResult' = NoneVal /\ scan' = [Idle EXCEPT !.pc = "raised"]
                ELSE scanResult' = Some(res) /\ scan' = [Idle EXCEPT !.pc = "done"]

\* scan_feature is called: the cache check, then the dispatch.
ScanFeature ==
    /\ scan.pc = "idle"
    /\ \E a \in ScanCalls :
        /\ call' = Some([args |-> a,
                          held |-> [hot |-> a.redis_client # "none"
                                              /\ RedisGet(hot, ScanKey) # NoneVal,
                                    cold |-> cold[ScanKey] # NoneVal]])
        /\ IF a.use_cache /\ a.redis_client # "none"
           THEN LET o == GetFeatureCache(hot, cold, ScanKey, TRUE,
                                         IF a.redis_client = "down" THEN 1 ELSE 0, 0)
                IN  IF o.raised # "none"
                    THEN /\ scan' = [Idle EXCEPT !.pc = "raised"]
                         /\ scanResult' = NoneVal
                         /\ cacheOps' = <<"get">>
                         /\ hot' = o.hot
                         /\ cold' = o.cold
                    ELSE IF o.ret # NoneVal
                    THEN /\ scan' = [Idle EXCEPT !.pc = "done"]
                         /\ scanResult' = Some(ScanResult(o.ret[1], TRUE, 0, 0, 0))
                         /\ cacheOps' = <<"get">>
                         /\ hot' = o.hot
                         /\ cold' = o.cold
                    ELSE Dispatch(a, o.hot, o.cold, <<"get">>)
           ELSE Dispatch(a, hot, cold, <<>>)
    /\ UNCHANGED <<last, lastPut, world, periodCall, otherVars, btCall, bt, btResult>>

\* One future resolves (as_completed yields it) and the loop body runs for it.
FutureResolves ==
    /\ scan.pc = "collect"
    /\ \E i \in Running(scan.work, scan.resolved, call[1].args.max_workers) :
          LET sc == CollectStep(scan, i, world) IN
          scan' = IF sc.completed = Len(sc.work) THEN [sc EXCEPT !.pc = "persist"] ELSE sc
    /\ UNCHANGED <<hot, cold, last, lastPut, world, call, scanResult, cacheOps, periodCall, otherVars, btCall, bt, btResult>>

\* The pool is closed: the results are cached and the ScanResult returned.
Persist ==
    /\ scan.pc = "persist"
    /\ PersistAndReturn(call[1].args, ParallelResult(scan))
    /\ UNCHANGED <<last, lastPut, world, call, periodCall, otherVars, btCall, bt, btResult>>

NextScan == ScanFeature \/ FutureResolves \/ Persist

SpecScan == InitScan /\ [][NextScan]_vars

\* ------------------------------------------------------------- scan: claims

\* The class of a symbol, read off the data alone.
ClassOf(s) ==
    IF world[s].rows = 0 THEN "absent"
    ELSE IF world[s].rows < MinDays THEN "skip"
    ELSE IF world[s].det = "raise" THEN "error"
    ELSE "ok"

InClass(c) == {s \in Symbols : ClassOf(s) = c}

\* scan_feature returned a ScanResult that was computed, not served from cache.
Fresh == scanResult # NoneVal /\ ~scanResult[1].from_cache

\* C3: a freshly computed ScanResult over a duplicate-free universe has
\* scanned + skipped + errors = |universe|: scanned counts the "ok" symbols,
\* errors the "error" ones, skipped the "skip" ones and the preload-absent ones.
C3_PartitionComplete ==
    Fresh =>
        LET r == scanResult[1] IN
        /\ r.scanned + r.skipped + r.errors = Len(TsCodes)
        /\ r.scanned = Cardinality(InClass("ok"))
        /\ r.errors = Cardinality(InClass("error"))
        /\ r.skipped = Cardinality(InClass("skip")) + Cardinality(InClass("absent"))

\* A parallel scan that met an absent symbol, an error and an ok symbol.
C3_Witness ==
    /\ Fresh
    /\ call[1].args.parallel
    /\ scan.completed = 2
    /\ InClass("absent") # {} /\ InClass("error") # {} /\ InClass("ok") # {}
    /\ scanResult[1].scanned = 1 /\ scanResult[1].skipped = 1 /\ scanResult[1].errors = 1

\* C4: the hit list of a freshly computed ScanResult is exactly the set of
\* symbols whose worker result was "ok" with signal true: no skip, error or
\* preload-absent symbol is in it, and no symbol twice.
C4_HitListIsOkTrue ==
    Fresh =>
        LET sig == scanResult[1].signals IN
        /\ ToSet(sig) = {s \in InClass("ok") : world[s].det = "true"}
        /\ \A i, j \in 1..Len(sig) : i # j => sig[i] # sig[j]

\* A parallel scan with two hits collected out of submission order, and a third
\* symbol that was ok without a signal, failed or was skipped.
C4_Witness ==
    /\ Fresh
    /\ call[1].args.parallel
    /\ scanResult[1].signals = <<SymbolNames[3], SymbolNames[1]>>
    /\ SymbolNames[2] \notin InClass("absent")

\* C6: every scan that is not served from cache writes its hit list to the cache
\* before it returns, whatever use_cache, the hot tier's availability or the
\* number of dispatched symbols.
C6_FreshScanAlwaysPersists ==
    Fresh =>
        /\ cacheOps # <<>> /\ cacheOps[Len(cacheOps)] = "put"
        /\ GetFeatureResult(cold, ScanKey) = Some(scanResult[1].signals)

\* C7: scan returns provenance "cached" if and only if use_cache is true and the
\* cache holds a hit list for (feature, date) in either tier; a cached result
\* carries the cached list with zero counts and no work item is dispatched; with
\* use_cache false the cache is never read.
C7_CachedIffUseCacheAndHeld ==
    /\ scanResult # NoneVal =>
          /\ scanResult[1].from_cache <=>
                (call[1].args.use_cache /\ (call[1].held.hot \/ call[1].held.cold))
          /\ scanResult[1].from_cache =>
                /\ scanResult[1].signals = StaleHits
                /\ scanResult[1].scanned = 0 /\ scanResult[1].skipped = 0
                /\ scanResult[1].errors = 0
                /\ scan.work = <<>> /\ scan.completed = 0
    /\ (call # NoneVal /\ ~call[1].args.use_cache) => "get" \notin ToSet(cacheOps)

\* --------------------------------------------------------- returns: data

\* trade_date values, YYYYMMDD; as 8-digit strings they order as these numbers.
DateTape == <<20241231, 20250102, 20250103, 20250106, 20250107, 20250108>>

\* Prices in cents.  An open can be zero or negative (synthetic data).
Opens == {-1050, 0, 1050}

Closes == {1000, 1120}

\* holding_periods as the callers and tests pass them, and the empty list.
HoldingPeriodLists == {<<1, 2, 3>>, <<2>>, <<3, 1>>, <<>>}

\* Frames: one bar per trading day the symbol traded on, ascending by date
\* (daily_bar is read ORDER BY trade_date), with or without a ts_code column.
BarsOn(days) ==
    {[trade_date |-> DateTape[d], open |-> o, close |-> c] :
        d \in days, o \in Opens, c \in Closes}

\* Every ascending frame over the first n trading days (days may be missing).
RECURSIVE Frames(_)
Frames(n) ==
    IF n = 0 THEN {<<>>}
    ELSE Frames(n - 1) \cup {Append(f, b) : f \in Frames(n - 1), b \in BarsOn({n})}

\* round(x, 2) of the quotient n / d (d > 0), in hundredths: the nearest
\* integer, a tie going to the even one.
RoundDiv(n, d) ==
    LET q == n \div d
        r == n % d
    IN  IF 2 * r > d THEN q + 1
        ELSE IF 2 * r < d THEN q
        ELSE IF q % 2 = 0 THEN q ELSE q + 1

\* (price - entry_price) / entry_price * 100, rounded to 2 places, in
\* hundredths of a percent.
PctReturn(price, entry_price) == RoundDiv((price - entry_price) * 10000, entry_price)

\* df.sort_values("trade_date"): insertion of each row into the sorted prefix.
RECURSIVE SortByDate(_)
SortByDate(rows) ==
    IF Len(rows) <= 1 THEN rows
    ELSE LET rest == SortByDate(SubSeq(rows, 1, Len(rows) - 1))
             x == rows[Len(rows)]
             before == SelectSeq(rest, LAMBDA b : b.trade_date <= x.trade_date)
             after == SelectSeq(rest, LAMBDA b : b.trade_date > x.trade_date)
         IN  before \o <<x>> \o after

MaxOf(S) == CHOOSE x \in S : \A y \in S : y <= x

\* ---------------------------------------------- calculate_period_returns
\* A per-period return that was 0 instead of None when the period has no data.
PeriodReturnZeroWhenShort(future_df, entry_price, period) ==
    IF Len(future_df) >= period
    THEN Some(PctReturn(future_df[period].close, entry_price))
    ELSE Some(0)

\* The return of one requested period: None when fewer than period bars follow.
PeriodReturn(future_df, entry_price, period) ==
    IF Len(future_df) >= period
    THEN Some(PctReturn(future_df[period].close, entry_price))
    ELSE NoneVal

NoReturns == [kind |-> "none"]

\* A calculation without the entry_price <= 0 guard.
CalculatePeriodReturnsNoEntryGuard(df, signal_date, holding_periods) ==
    IF df.rows = <<>> \/ ~df.has_ts_code THEN NoReturns
    ELSE LET sorted == SortByDate(df.rows)
             future_df == SelectSeq(sorted, LAMBDA b : b.trade_date > signal_date)
         IN  IF Len(future_df) < 1 THEN NoReturns
             ELSE IF holding_periods = <<>> THEN [kind |-> "raise"]
             ELSE [kind |-> "dict", signal_date |-> signal_date,
                   entry_date |-> future_df[1].trade_date,
                   entry_price |-> future_df[1].open,
                   returns |-> [p \in ToSet(holding_periods) |-> NoneVal],
                   max_return |-> NoneVal]

\* A calculation whose max_return looked at every future bar, not only at the
\* first max(holding_periods) ones.
CalculatePeriodReturnsMaxOverAll(df, signal_date, holding_periods) ==
    IF df.rows = <<>> \/ ~df.has_ts_code THEN NoReturns
    ELSE LET sorted == SortByDate(df.rows)
             future_df == SelectSeq(sorted, LAMBDA b : b.trade_date > signal_date)
         IN  IF Len(future_df) < 1 THEN NoReturns
             ELSE LET entry_price == future_df[1].open IN
                  IF entry_price <= 0 THEN NoReturns
                  ELSE IF holding_periods = <<>> THEN [kind |-> "raise"]
                  ELSE [kind |-> "dict", signal_date |-> signal_date,
                        entry_date |-> future_df[1].trade_date,
                        entry_price |-> entry_price,
                        returns |->
                            [p \in ToSet(holding_periods) |->
                                PeriodReturn(future_df, entry_price, p)],
                        max_return |->
                            Some(PctReturn(
                                MaxOf({future_df[i].close : i \in 1..Len(future_df)}),
                                entry_price))]

\* The call's outcome: kind "none" (returns None), "raise" (max() of an empty
\* holding_periods raises ValueError) or "dict" with the returned fields;
\* returns maps each requested period to NoneVal or Some(percent).
CalculatePeriodReturns(df, signal_date, holding_periods) ==
    IF df.rows = <<>> \/ ~df.has_ts_code THEN NoReturns
    ELSE LET sorted == SortByDate(df.rows)
             future_df == SelectSeq(sorted, LAMBDA b : b.trade_date > signal_date)
         IN  IF Len(future_df) < 1 THEN NoReturns
             ELSE LET entry_price == future_df[1].open IN
                  IF entry_price <= 0 THEN NoReturns
                  ELSE IF holding_periods = <<>> THEN [kind |-> "raise"]
                  ELSE LET max_period == MaxOf(ToSet(holding_periods))
                           available_periods ==
                               IF max_period < Len(future_df)
                               THEN max_period ELSE Len(future_df)
                           max_close ==
                               MaxOf({future_df[i].close : i \in 1..available_periods})
                       IN  [kind |-> "dict", signal_date |-> signal_date,
                            entry_date |-> future_df[1].trade_date,
                            entry_price |-> entry_price,
                            returns |->
                                [p \in ToSet(holding_periods) |->
                                    PeriodReturn(future_df, entry_price, p)],
                            max_return |->
                                IF available_periods > 0
                                THEN Some(PctReturn(max_close, entry_price))
                                ELSE NoneVal]

\* ------------------------------------------------------- returns: actions

\* signal_date: a trading day of the tape, or the day before the first one.
SignalDates == {20241230} \cup {DateTape[d] : d \in 1..NumBars}

InitReturns ==
    /\ hot = [hk \in HotKeys |-> NoneVal]
    /\ cold = [k \in CacheKeys |-> NoneVal]
    /\ last = [op |-> "init", key |-> <<"bbc", "20251220">>, client |-> FALSE,
               arg |-> NoneVal, replaced |-> FALSE, hot_hit |-> FALSE, ret |-> NoneVal,
               raised |-> "none"]
    /\ lastPut = [k \in CacheKeys |-> NoPut]
    /\ world = <<>>
    /\ call = NoneVal
    /\ scan = NoneVal
    /\ scanResult = NoneVal
    /\ cacheOps = <<>>
    /\ btCall = NoneVal
    /\ bt = NoneVal
    /\ btResult = NoneVal
    /\ statsCall = NoneVal
    /\ cliRun = NoneVal
    /\ procs = NoneVal
    /\ \E rows \in Frames(NumBars), has \in BOOLEAN, sd \in SignalDates,
          hp \in HoldingPeriodLists :
          periodCall = [df |-> [rows |-> rows, has_ts_code |-> has], signal_date |-> sd,
                 holding_periods |-> hp, out |-> NoneVal]

\* calculate_period_returns(df, signal_date, holding_periods) is called.
ComputeReturns ==
    /\ periodCall.out = NoneVal
    /\ periodCall' = [periodCall EXCEPT !.out =
                  Some(CalculatePeriodReturns(periodCall.df, periodCall.signal_date, periodCall.holding_periods))]
    /\ UNCHANGED <<cacheVars, scanVars, btVars, otherVars>>

NextReturns == ComputeReturns

SpecReturns == InitReturns /\ [][NextReturns]_vars

\* -------------------------------------------------------- returns: claims

\* The bars of the call's frame dated strictly after signal_date.
FutureBars == {i \in 1..Len(periodCall.df.rows) : periodCall.df.rows[i].trade_date > periodCall.signal_date}

FirstFutureOpen ==
    periodCall.df.rows[CHOOSE i \in FutureBars : \A j \in FutureBars : i <= j].open

\* C9: in every non-null result, the return of a requested period P is non-null
\* exactly when at least P bars lie strictly after signal_date; a period without
\* data is null, never 0, and a too-long period nulls only itself.
C9_PeriodNullIffTooFewBars ==
    (periodCall.out # NoneVal /\ periodCall.out[1].kind = "dict") =>
        /\ DOMAIN periodCall.out[1].returns = ToSet(periodCall.holding_periods)
        /\ \A p \in ToSet(periodCall.holding_periods) :
              /\ periodCall.out[1].returns[p] # NoneVal <=> Cardinality(FutureBars) >= p
              /\ Cardinality(FutureBars) < p => periodCall.out[1].returns[p] # Some(0)

\* Two bars after the signal and periods 1, 2, 3: 1 and 2 are priced, 3 is null.
C9_Witness ==
    /\ periodCall.out # NoneVal
    /\ periodCall.out[1].kind = "dict"
    /\ periodCall.holding_periods = <<1, 2, 3>>
    /\ Cardinality(FutureBars) = 2
    /\ periodCall.out[1].returns[1] # NoneVal
    /\ periodCall.out[1].returns[2] # NoneVal
    /\ periodCall.out[1].returns[3] = NoneVal

\* C10 as claimed: computeReturns returns null exactly when the series has no
\* bar strictly after signal_date or the first future bar's open is <= 0, and a
\* non-null result in every other case.
C10_NullIffNoFutureOrBadOpen ==
    periodCall.out # NoneVal =>
        /\ periodCall.out[1].kind = "none" <=> (FutureBars = {} \/ FirstFutureOpen <= 0)
        /\ periodCall.out[1].kind # "none" => periodCall.out[1].kind = "dict"

\* C10 as amended: the result is null exactly when the frame has no ts_code
\* column, no bar lies strictly after signal_date, or the first future bar's
\* open is <= 0; in every other case the call returns a non-null result when
\* holding_periods is non-empty and raises ValueError when it is empty.
C10_NullIffNoColumnNoFutureOrBadOpen ==
    periodCall.out # NoneVal =>
        /\ periodCall.out[1].kind = "none" <=>
              (~periodCall.df.has_ts_code \/ FutureBars = {} \/ FirstFutureOpen <= 0)
        /\ periodCall.out[1].kind = "raise" <=>
              (periodCall.out[1].kind # "none" /\ periodCall.holding_periods = <<>>)

\* A frame with its ts_code column and bars after the signal whose first open
\* is zero: the result is null.
C10_Witness ==
    /\ periodCall.out # NoneVal
    /\ periodCall.out[1].kind = "none"
    /\ periodCall.df.has_ts_code
    /\ periodCall.holding_periods = <<1, 2, 3>>
    /\ Cardinality(FutureBars) = 2
    /\ FirstFutureOpen = 0

\* -------------------------------------------------------- backtest: data

\* ts_codes as get_ts_codes() returns them, duplicate-free.
BtCodes == [i \in 1..NumBtSymbols |-> SymbolNames[i]]

\* The names of the FEATURES registry; every entry's min_days is MinDays here.
FEATURES ==
    {"bbc", "volume_upper_shadow", "volume_stagnation", "high_retracement",
     "consolidation_breakout", "bullish_cannon"}

\* The names _FEATURE_FUNCS of the backtest module maps to a detector.
BacktestFeatureFuncs ==
    {"bbc", "volume_upper_shadow", "volume_stagnation", "high_retracement",
     "consolidation_breakout", "bullish_cannon"}

\* Open and close of each trading day of DateTape, in cents.
PriceTape ==
    <<[open |-> 1000, close |-> 1040], [open |-> 1050, close |-> 1070],
      [open |-> 1080, close |-> 1030], [open |-> 1100, close |-> 1130],
      [open |-> 1120, close |-> 1150], [open |-> 1100, close |-> 1120]>>

\* The days a symbol has rows for: listed throughout, listed after the first
\* day, suspended on the third day, delisted before the last day, never loaded.
SeriesProfiles == {"full", "late", "gap", "early", "none"}

DaysOf(profile) ==
    CASE profile = "full" -> 1..NumDays
      [] profile = "late" -> 2..NumDays
      [] profile = "gap" -> (1..NumDays) \ {3}
      [] profile = "early" -> 1..(NumDays - 1)
      [] OTHER -> {}

\* The daily_bar row of the i-th symbol on the d-th trading day.
DailyBar(i, d) ==
    [ts_code |-> BtCodes[i], trade_date |-> DateTape[d],
     open |-> PriceTape[d].open, close |-> PriceTape[d].close + 20 * (i - 1)]

\* batch_load_daily_bars over the table: one frame, ascending by trade_date, per
\* symbol that has rows.
BatchLoadBars(table, ts_codes) ==
    LET idx(x) == CHOOSE i \in 1..Len(ts_codes) : ts_codes[i] = x
        frame(i) == SortByDate(
            LET RECURSIVE Rows(_)
                Rows(d) == IF d = 0 THEN <<>>
                           ELSE IF d \in DaysOf(table[i])
                                THEN Append(Rows(d - 1), DailyBar(i, d))
                                ELSE Rows(d - 1)
            IN  Rows(NumDays))
    IN  [x \in {ts_codes[i] : i \in {j \in 1..Len(ts_codes) : DaysOf(table[j]) # {}}} |->
            frame(idx(x))]

\* df.to_json(): column -> index label -> value.
BarsToJson(rows) ==
    [col \in {"ts_code", "trade_date", "open", "close"} |->
        [i \in 0..(Len(rows) - 1) |-> rows[i + 1][col]]]

\* pd.read_json(StringIO(df_json)) followed by trade_date.astype(str): one row
\* per index label, every column restored.
BarsReadJson(df_json) ==
    [i \in 1..Cardinality(DOMAIN df_json["trade_date"]) |->
        [col \in DOMAIN df_json |-> df_json[col][i - 1]]]

RECURSIVE SortedSeq(_)
SortedSeq(S) ==
    IF S = {} THEN <<>>
    ELSE LET m == CHOOSE x \in S : \A y \in S : x <= y
         IN  <<m>> \o SortedSeq(S \ {m})

\* _extract_year_trading_days: the dates of the year found in any loaded frame.
ExtractYearTradingDays(data_cache, year) ==
    SortedSeq({d \in UNION {{data_cache[x][i].trade_date : i \in 1..Len(data_cache[x])} :
                               x \in DOMAIN data_cache} :
                  d \div 10000 = year})

\* _get_feature_config: the registry entry, or None.
GetFeatureConfig(feature_name) ==
    IF feature_name \in FEATURES
    THEN Some([name |-> feature_name, min_days |-> MinDays])
    ELSE NoneVal

\* Deterministic detectors, as functions of the window they are handed.
Detectors == {"never", "always", "raise", "up", "raise_late", "raise_long"}

Detector(det, df_slice, min_days) ==
    CASE det = "never" -> "false"
      [] det = "always" -> "true"
      [] det = "raise" -> "raise"
      [] det = "up" -> IF df_slice[Len(df_slice)].close > df_slice[Len(df_slice)].open
                       THEN "true" ELSE "false"
      [] det = "raise_late" -> IF Len(df_slice) > min_days THEN "raise" ELSE "true"
      [] OTHER -> IF Len(df_slice) > min_days + 1 THEN "raise" ELSE "true"

\* ------------------------------------ _calculate_future_returns_from_df
\* A backtest calculation whose max_return looked at every future bar, not only
\* at the holding period.
CalculateFutureReturnsFromDfMaxOverAll(df, signal_date, holding_days) ==
    IF df = <<>> \/ "ts_code" \notin DOMAIN df[1] THEN NoneVal
    ELSE LET sorted == SortByDate(df)
             future_df == SelectSeq(sorted, LAMBDA b : b.trade_date > signal_date)
         IN  IF Len(future_df) < holding_days THEN NoneVal
             ELSE LET entry_price == future_df[1].open IN
                  IF entry_price <= 0 THEN NoneVal
                  ELSE LET exit_row == future_df[holding_days]
                           max_close ==
                               MaxOf({future_df[i].close : i \in 1..Len(future_df)})
                       IN  Some([ts_code |-> df[1].ts_code,
                                 signal_date |-> signal_date,
                                 entry_date |-> future_df[1].trade_date,
                                 entry_price |-> entry_price,
                                 exit_date |-> exit_row.trade_date,
                                 exit_price |-> exit_row.close,
                                 total_return |-> PctReturn(exit_row.close, entry_price),
                                 max_return |-> PctReturn(max_close, entry_price),
                                 holding_days |-> holding_days])

\* None, or the result dict; returns are percentages in hundredths.
\* A calculation that took max_return from the closes before the exit bar (the
\* entry bar's close when there is none).
CalculateFutureReturnsFromDfMaxBeforeExit(df, signal_date, holding_days) ==
    IF df = <<>> \/ "ts_code" \notin DOMAIN df[1] THEN NoneVal
    ELSE LET sorted == SortByDate(df)
             future_df == SelectSeq(sorted, LAMBDA b : b.trade_date > signal_date)
         IN  IF Len(future_df) < holding_days THEN NoneVal
             ELSE LET entry_price == future_df[1].open IN
                  IF entry_price <= 0 THEN NoneVal
                  ELSE LET exit_row == future_df[holding_days]
                           holding_df == SubSeq(future_df, 1, IF holding_days > 1 THEN holding_days - 1 ELSE 1)
                           max_close ==
                               MaxOf({holding_df[i].close : i \in 1..Len(holding_df)})
                       IN  Some([ts_code |-> df[1].ts_code,
                                 signal_date |-> signal_date,
                                 entry_date |-> future_df[1].trade_date,
                                 entry_price |-> entry_price,
                                 exit_date |-> exit_row.trade_date,
                                 exit_price |-> exit_row.close,
                                 total_return |-> PctReturn(exit_row.close, entry_price),
                                 max_return |-> PctReturn(max_close, entry_price),
                                 holding_days |-> Len(holding_df)])

CalculateFutureReturnsFromDf(df, signal_date, holding_days) ==
    IF df = <<>> \/ "ts_code" \notin DOMAIN df[1] THEN NoneVal
    ELSE LET sorted == SortByDate(df)
             future_df == SelectSeq(sorted, LAMBDA b : b.trade_date > signal_date)
         IN  IF Len(future_df) < holding_days THEN NoneVal
             ELSE LET entry_price == future_df[1].open IN
                  IF entry_price <= 0 THEN NoneVal
                  ELSE LET exit_row == future_df[holding_days]
                           holding_df == SubSeq(future_df, 1, holding_days)
                           max_close ==
                               MaxOf({holding_df[i].close : i \in 1..Len(holding_df)})
                       IN  Some([ts_code |-> df[1].ts_code,
                                 signal_date |-> signal_date,
                                 entry_date |-> future_df[1].trade_date,
                                 entry_price |-> entry_price,
                                 exit_date |-> exit_row.trade_date,
                                 exit_price |-> exit_row.close,
                                 total_return |-> PctReturn(exit_row.close, entry_price),
                                 max_return |-> PctReturn(max_close, entry_price),
                                 holding_days |-> Len(holding_df)])

\* -------------------------------------------------- _backtest_stock_worker

\* A loop that handed the detector the symbol's whole series instead of the bars
\* up to the signal day.
RECURSIVE StockWorkerLoopLookahead(_, _, _, _, _)
StockWorkerLoopLookahead(df, item, i, results, det) ==
    IF i > Len(item.trading_days) THEN [raised |-> FALSE, results |-> results]
    ELSE LET signal_date == item.trading_days[i]
             df_slice == SelectSeq(df, LAMBDA b : b.trade_date <= signal_date)
             evaluated == /\ signal_date \in {df[j].trade_date : j \in 1..Len(df)}
                          /\ Len(df_slice) >= item.min_days
             fired == IF evaluated THEN Detector(det, df, item.min_days) ELSE "false"
             result == CalculateFutureReturnsFromDf(df, signal_date, item.holding_days)
         IN  IF fired = "raise" THEN [raised |-> TRUE, results |-> <<>>]
             ELSE StockWorkerLoopLookahead(df, item, i + 1,
                      IF fired = "true" /\ result # NoneVal
                      THEN Append(results, result[1]) ELSE results,
                      det)

\* A loop that caught a detector exception per trading day: it went on to the
\* next day and kept the results found so far.
RECURSIVE StockWorkerLoopSkipsRaise(_, _, _, _, _)
StockWorkerLoopSkipsRaise(df, item, i, results, det) ==
    IF i > Len(item.trading_days) THEN [raised |-> FALSE, results |-> results]
    ELSE LET signal_date == item.trading_days[i]
             df_slice == SelectSeq(df, LAMBDA b : b.trade_date <= signal_date)
             fires == /\ signal_date \in {df[j].trade_date : j \in 1..Len(df)}
                      /\ Len(df_slice) >= item.min_days
                      /\ Detector(det, df_slice, item.min_days) = "true"
             result == CalculateFutureReturnsFromDf(df, signal_date, item.holding_days)
         IN  StockWorkerLoopSkipsRaise(df, item, i + 1,
                 IF fires /\ result # NoneVal THEN Append(results, result[1]) ELSE results,
                 det)

\* The loop over trading_days from index i on; raised when the detector raised.
RECURSIVE StockWorkerLoop(_, _, _, _, _)
StockWorkerLoop(df, item, i, results, det) ==
    IF i > Len(item.trading_days) THEN [raised |-> FALSE, results |-> results]
    ELSE LET signal_date == item.trading_days[i]
             df_slice == SelectSeq(df, LAMBDA b : b.trade_date <= signal_date)
         IN  IF signal_date \notin {df[j].trade_date : j \in 1..Len(df)}
             THEN StockWorkerLoop(df, item, i + 1, results, det)
             ELSE IF Len(df_slice) < item.min_days
             THEN StockWorkerLoop(df, item, i + 1, results, det)
             ELSE LET fired == Detector(det, df_slice, item.min_days) IN
                  IF fired = "raise" THEN [raised |-> TRUE, results |-> <<>>]
                  ELSE IF fired = "true"
                  THEN LET result == CalculateFutureReturnsFromDf(
                                         df, signal_date, item.holding_days)
                       IN  StockWorkerLoop(df, item, i + 1,
                               IF result # NoneVal THEN Append(results, result[1])
                               ELSE results,
                               det)
                  ELSE StockWorkerLoop(df, item, i + 1, results, det)

\* The list of result dicts the worker returns for one work item.
BacktestStockWorker(item, det) ==
    IF item.feature_name \notin BacktestFeatureFuncs THEN <<>>
    ELSE LET df == BarsReadJson(item.df_json) IN
         IF Len(df) < item.min_days THEN <<>>
         ELSE LET out == StockWorkerLoop(SortByDate(df), item, 1, <<>>, det) IN
              IF out.raised THEN <<>> ELSE out.results

\* ------------------------------------------------- _calculate_yearly_stats

RECURSIVE SumOf(_, _)
SumOf(results, field) ==
    IF results = <<>> THEN 0
    ELSE results[1][field] + SumOf(Tail(results), field)

MinOf(S) == CHOOSE x \in S : \A y \in S : x <= y

\* _empty_stats
EmptyStats(feature_name, year, trading_days_count) ==
    [feature_name |-> feature_name, year |-> year, total_signals |-> 0,
     win_count |-> 0, loss_count |-> 0, win_rate |-> 0, max_win_count |-> 0,
     max_win_rate |-> 0, total_return_sum |-> 0, win_return_sum |-> 0,
     loss_return_sum |-> 0, max_return_sum |-> 0, avg_return |-> 0,
     max_return |-> 0, min_return |-> 0, trading_days_count |-> trading_days_count]

\* Statistics that counted an exact zero total_return as a win.
CalculateYearlyStatsZeroWins(feature_name, year, results, trading_days_count) ==
    IF results = <<>> THEN EmptyStats(feature_name, year, trading_days_count)
    ELSE LET total_signals == Len(results)
             win_results == SelectSeq(results, LAMBDA r : r.total_return >= 0)
             loss_results == SelectSeq(results, LAMBDA r : r.total_return < 0)
             max_win_results == SelectSeq(results, LAMBDA r : r.max_return > 0)
             returns == {results[i].total_return : i \in 1..Len(results)}
             total_return_sum == SumOf(results, "total_return")
         IN  [feature_name |-> feature_name, year |-> year,
              total_signals |-> total_signals,
              win_count |-> Len(win_results),
              loss_count |-> Len(loss_results),
              win_rate |-> RoundDiv(Len(win_results) * 10000, total_signals),
              max_win_count |-> Len(max_win_results),
              max_win_rate |-> RoundDiv(Len(max_win_results) * 10000, total_signals),
              total_return_sum |-> total_return_sum,
              win_return_sum |-> SumOf(win_results, "total_return"),
              loss_return_sum |-> SumOf(loss_results, "total_return"),
              max_return_sum |-> SumOf(results, "max_return"),
              avg_return |-> RoundDiv(total_return_sum, total_signals),
              max_return |-> MaxOf(returns),
              min_return |-> MinOf(returns),
              trading_days_count |-> trading_days_count]

\* Rates and returns are percentages in hundredths; a sum of such values is
\* already one, so round(sum, 2) leaves it as it is.
CalculateYearlyStats(feature_name, year, results, trading_days_count) ==
    IF results = <<>> THEN EmptyStats(feature_name, year, trading_days_count)
    ELSE LET total_signals == Len(results)
             win_results == SelectSeq(results, LAMBDA r : r.total_return > 0)
             loss_results == SelectSeq(results, LAMBDA r : r.total_return <= 0)
             max_win_results == SelectSeq(results, LAMBDA r : r.max_return > 0)
             returns == {results[i].total_return : i \in 1..Len(results)}
             total_return_sum == SumOf(results, "total_return")
         IN  [feature_name |-> feature_name, year |-> year,
              total_signals |-> total_signals,
              win_count |-> Len(win_results),
              loss_count |-> Len(loss_results),
              win_rate |-> RoundDiv(Len(win_results) * 10000, total_signals),
              max_win_count |-> Len(max_win_results),
              max_win_rate |-> RoundDiv(Len(max_win_results) * 10000, total_signals),
              total_return_sum |-> total_return_sum,
              win_return_sum |-> SumOf(win_results, "total_return"),
              loss_return_sum |-> SumOf(loss_results, "total_return"),
              max_return_sum |-> SumOf(results, "max_return"),
              avg_return |-> RoundDiv(total_return_sum, total_signals),
              max_return |-> MaxOf(returns),
              min_return |-> MinOf(returns),
              trading_days_count |-> trading_days_count]

\* ------------------------------------------------------------ backtest_year

\* work_items, in ts_codes order: one per symbol found in data_cache.
BacktestWorkItems(ts_codes, data_cache, trading_days, feature_name, min_days, holding_days) ==
    LET present == SelectSeq(ts_codes, LAMBDA x : x \in DOMAIN data_cache) IN
    [i \in 1..Len(present) |->
        [ts_code |-> present[i], df_json |-> BarsToJson(data_cache[present[i]]),
         trading_days |-> trading_days, feature_name |-> feature_name,
         min_days |-> min_days, holding_days |-> holding_days]]

\* The body of "for future in as_completed(futures)" for the future of work
\* item i: the locals after it.
BacktestCollectStep(b, i, det) ==
    [b EXCEPT
        !.resolved = @ \cup {i},
        !.all_results = @ \o BacktestStockWorker(b.work[i], det),
        !.completed = @ + 1,
        !.progress = <<b.completed + 1, b.total_stocks>>]

\* The calls backtest_year can get, each with the table it reads.
BacktestCalls ==
    [table : [1..NumBtSymbols -> SeriesProfiles], det : Detectors,
     feature_name : {"bbc", "macd_cross"}, year : {2025},
     holding_days : 1..MaxHolding, max_workers : 1..MaxWorkers]

InitBacktest ==
    /\ hot = [hk \in HotKeys |-> NoneVal]
    /\ cold = [k \in CacheKeys |-> NoneVal]
    /\ last = [op |-> "init", key |-> <<"bbc", "20251220">>, client |-> FALSE,
               arg |-> NoneVal, replaced |-> FALSE, hot_hit |-> FALSE, ret |-> NoneVal,
               raised |-> "none"]
    /\ lastPut = [k \in CacheKeys |-> NoPut]
    /\ world = <<>>
    /\ call = NoneVal
    /\ scan = [Idle EXCEPT !.pc = "off"]
    /\ scanResult = NoneVal
    /\ cacheOps = <<>>
    /\ periodCall = NoneVal
    /\ statsCall = NoneVal
    /\ cliRun = NoneVal
    /\ procs = NoneVal
    /\ btCall \in BacktestCalls
    /\ bt = BtIdle
    /\ btResult = NoneVal

\* backtest_year is called: phases 1 and 2, up to the submission of the work
\* items, or an early return with empty stats.
BacktestYear ==
    /\ bt.pc = "idle"
    /\ LET a == btCall
           feature_config == GetFeatureConfig(a.feature_name)
           data_cache == BatchLoadBars(a.table, BtCodes)
           trading_days == ExtractYearTradingDays(data_cache, a.year)
       IN  IF feature_config = NoneVal \/ Len(trading_days) = 0
           THEN /\ btResult' = Some([stats |-> EmptyStats(a.feature_name, a.year, 0),
                                     results |-> <<>>])
                /\ bt' = [bt EXCEPT !.pc = "done",
                             !.total_stocks = IF feature_config = NoneVal
                                              THEN 0 ELSE Len(BtCodes)]
           ELSE /\ btResult' = NoneVal
                /\ bt' = [bt EXCEPT
                             !.pc = "collect",
                             !.total_stocks = Len(BtCodes),
                             !.total_days = Len(trading_days),
                             !.work = BacktestWorkItems(
                                 BtCodes, data_cache, trading_days, a.feature_name,
                                 feature_config[1].min_days, a.holding_days)]
    /\ UNCHANGED <<cacheVars, scanVars, periodCall, otherVars, btCall>>

\* One future resolves (as_completed yields it) and the loop body runs for it.
BacktestFutureResolves ==
    /\ bt.pc = "collect"
    /\ \E i \in Running(bt.work, bt.resolved, btCall.max_workers) :
          LET b == BacktestCollectStep(bt, i, btCall.det) IN
          bt' = IF b.completed = Len(b.work) THEN [b EXCEPT !.pc = "aggregate"] ELSE b
    /\ UNCHANGED <<cacheVars, scanVars, periodCall, otherVars, btCall, btResult>>

\* The pool is closed: the statistics are computed and returned with the results.
BacktestReturns ==
    /\ bt.pc = "aggregate"
    /\ btResult' = Some([stats |-> CalculateYearlyStats(btCall.feature_name, btCall.year,
                                                        bt.all_results, bt.total_days),
                         results |-> bt.all_results])
    /\ bt' = [bt EXCEPT !.pc = "done"]
    /\ UNCHANGED <<cacheVars, scanVars, periodCall, otherVars, btCall>>

NextBacktest == BacktestYear \/ BacktestFutureResolves \/ BacktestReturns

SpecBacktest == InitBacktest /\ [][NextBacktest]_vars

\* ------------------------------------------ scan and backtest side by side

InitAggregates == InitScan \/ InitBacktest

NextAggregates == NextScan \/ NextBacktest

SpecAggregates == InitAggregates /\ [][NextAggregates]_vars

\* -------------------------------------------------- order independence: claim

\* The locals of the parallel scan after the futures resolved one by one in
\* submission order, from work item i on.
RECURSIVE SerialCollect(_, _, _)
SerialCollect(sc, i, w) ==
    IF i > Len(sc.work) THEN sc
    ELSE SerialCollect(CollectStep(sc, i, w), i + 1, w)

\* The ScanResult of the scan run with the futures resolving in submission order.
SerialScanResult ==
    LET work == WorkItems(TsCodes, BatchLoadDailyBars(world, TsCodes), ScanKey[1], MinDays)
        missing == Len(TsCodes) - Len(work)
    IN  ParallelResult(SerialCollect(
            [Idle EXCEPT !.work = work, !.missing = missing, !.skipped = missing],
            1, world))

\* all_results of the backtest run with the futures resolving in submission order.
RECURSIVE SerialBacktestResults(_, _)
SerialBacktestResults(work, i) ==
    IF i > Len(work) THEN <<>>
    ELSE BacktestStockWorker(work[i], btCall.det) \o SerialBacktestResults(work, i + 1)

\* C5: whatever order the worker futures complete in and whatever max_workers is,
\* a freshly computed scan has the hit set and the scanned / skipped / errors
\* counts of the run that resolves the futures in submission order, and a yearly
\* backtest has that run's set of results and the statistics derived from them.
C5_AggregatesOrderIndependent ==
    /\ Fresh =>
          /\ ToSet(scanResult[1].signals) = ToSet(SerialScanResult.signals)
          /\ scanResult[1].scanned = SerialScanResult.scanned
          /\ scanResult[1].skipped = SerialScanResult.skipped
          /\ scanResult[1].errors = SerialScanResult.errors
    /\ (btResult # NoneVal /\ bt.work # <<>>) =>
          LET serial == SerialBacktestResults(bt.work, 1) IN
          /\ ToSet(btResult[1].results) = ToSet(serial)
          /\ Len(btResult[1].results) = Len(serial)
          /\ btResult[1].stats =
                CalculateYearlyStats(btCall.feature_name, btCall.year, serial,
                                     bt.total_days)

\* A backtest on two workers whose second work item completed first: both
\* symbols contributed results, collected against submission order.
C5_Witness ==
    /\ btResult # NoneVal
    /\ btCall.max_workers = 2
    /\ Len(btResult[1].results) >= 2
    /\ btResult[1].results[1].ts_code = SymbolNames[2]
    /\ btResult[1].results[Len(btResult[1].results)].ts_code = SymbolNames[1]
    /\ btResult[1].stats.win_count >= 1
    /\ btResult[1].stats.loss_count >= 1

\* ------------------------------------------- returns: entry, exit and max

\* The p-th bar of the call's frame after signal_date, by date: its index.
NthFutureBar(p) ==
    CHOOSE i \in FutureBars :
        Cardinality({j \in FutureBars :
            periodCall.df.rows[j].trade_date < periodCall.df.rows[i].trade_date}) = p - 1

\* The frame of the worked example: seven trading days, the signal on the first.
WorkedExampleFrame ==
    [has_ts_code |-> TRUE,
     rows |->
        <<[trade_date |-> 20251208, open |-> 1000, close |-> 1040],
          [trade_date |-> 20251209, open |-> 1050, close |-> 1070],
          [trade_date |-> 20251210, open |-> 1080, close |-> 1100],
          [trade_date |-> 20251211, open |-> 1100, close |-> 1130],
          [trade_date |-> 20251212, open |-> 1120, close |-> 1150],
          [trade_date |-> 20251213, open |-> 1100, close |-> 1120],
          [trade_date |-> 20251214, open |-> 1080, close |-> 1090]>>]

\* C11: in a non-null result the entry is the date and open of the first bar of
\* the frame strictly after signal_date (whatever days the frame skips), the
\* return of period P is taken from the close of the P-th such bar, and
\* max_return from the largest close among the first min(max(holding_periods),
\* available) such bars; the worked example (signal on day 0, period 5) enters at
\* 10.5, returns 6.67 (exit 11.2) and has max_return 9.52 (max close 11.5).
C11_EntryExitAndMaxFromFutureBars ==
    /\ (periodCall.out # NoneVal /\ periodCall.out[1].kind = "dict") =>
          LET out == periodCall.out[1]
              rows == periodCall.df.rows
              n == Cardinality(FutureBars)
              entry == rows[NthFutureBar(1)]
              longest == CHOOSE p \in ToSet(periodCall.holding_periods) :
                             \A q \in ToSet(periodCall.holding_periods) : q <= p
              window == IF longest < n THEN longest ELSE n
              max_close == CHOOSE c \in {rows[NthFutureBar(k)].close : k \in 1..window} :
                               \A k \in 1..window : rows[NthFutureBar(k)].close <= c
          IN  /\ out.entry_date = entry.trade_date
              /\ out.entry_price = entry.open
              /\ \A p \in ToSet(periodCall.holding_periods) :
                    p <= n =>
                        out.returns[p] =
                            Some(RoundDiv((rows[NthFutureBar(p)].close - entry.open) * 10000,
                                          entry.open))
              /\ out.max_return = Some(RoundDiv((max_close - entry.open) * 10000, entry.open))
    /\ LET ex == CalculatePeriodReturns(WorkedExampleFrame, 20251208, <<5>>) IN
          /\ ex.kind = "dict"
          /\ ex.entry_date = 20251209
          /\ ex.entry_price = 1050
          /\ ex.returns[5] = Some(667)
          /\ ex.max_return = Some(952)

\* Three bars after the signal, the last one closing highest, asked for period
\* 2: the entry is the first bar, the exit the second, and max_return stops at the
\* second bar's close (below the entry: -4.76).
C11_Witness ==
    /\ periodCall.out # NoneVal
    /\ periodCall.out[1].kind = "dict"
    /\ periodCall.holding_periods = <<2>>
    /\ periodCall.signal_date = 20241230
    /\ Len(periodCall.df.rows) = 3
    /\ periodCall.df.rows[1].close = 1000
    /\ periodCall.df.rows[2].close = 1000
    /\ periodCall.df.rows[3].close = 1120
    /\ periodCall.out[1].entry_date = 20241231
    /\ periodCall.out[1].entry_price = 1050
    /\ periodCall.out[1].returns[2] = Some(-476)
    /\ periodCall.out[1].max_return = Some(-476)

\* ------------------------------------------- yearly statistics on their own

\* (total_return, max_return) of a BacktestResult, in hundredths of a percent:
\* a loss, an exact zero and a win, each with a max_return not below it.
ReturnPairs == {<<-200, -100>>, <<-200, 0>>, <<-200, 900>>, <<0, 0>>, <<0, 900>>, <<500, 900>>}

\* A BacktestResult; only the two returns matter to the statistics.
ResultOf(pair) ==
    [ts_code |-> SymbolNames[1], signal_date |-> 20250102,
     total_return |-> pair[1], max_return |-> pair[2]]

RECURSIVE ResultLists(_)
ResultLists(n) ==
    IF n = 0 THEN {<<>>}
    ELSE ResultLists(n - 1) \cup
         {Append(l, ResultOf(pr)) : l \in {x \in ResultLists(n - 1) : Len(x) = n - 1},
                                    pr \in ReturnPairs}

InitStats ==
    /\ hot = [hk \in HotKeys |-> NoneVal]
    /\ cold = [k \in CacheKeys |-> NoneVal]
    /\ last = [op |-> "init", key |-> <<"bbc", "20251220">>, client |-> FALSE,
               arg |-> NoneVal, replaced |-> FALSE, hot_hit |-> FALSE, ret |-> NoneVal,
               raised |-> "none"]
    /\ lastPut = [k \in CacheKeys |-> NoPut]
    /\ world = <<>>
    /\ call = NoneVal
    /\ scan = [Idle EXCEPT !.pc = "off"]
    /\ scanResult = NoneVal
    /\ cacheOps = <<>>
    /\ periodCall = NoneVal
    /\ btCall = NoneVal
    /\ bt = [BtIdle EXCEPT !.pc = "off"]
    /\ btResult = NoneVal
    /\ cliRun = NoneVal
    /\ procs = NoneVal
    /\ \E results \in ResultLists(MaxResults), days \in {0, 243} :
          statsCall = [results |-> results, trading_days_count |-> days, out |-> NoneVal]

\* _calculate_yearly_stats("bbc", 2025, results, trading_days_count) is called.
ComputeStats ==
    /\ statsCall.out = NoneVal
    /\ statsCall' = [statsCall EXCEPT !.out =
                        Some(CalculateYearlyStats("bbc", 2025, statsCall.results,
                                                  statsCall.trading_days_count))]
    /\ UNCHANGED <<cacheVars, scanVars, periodCall, btVars, cliRun, procs>>

NextStats == ComputeStats

SpecStats == InitStats /\ [][NextStats]_vars

\* The sum of a field over the results with index in I.
RECURSIVE FieldSum(_, _, _)
FieldSum(results, I, field) ==
    IF I = {} THEN 0
    ELSE LET i == CHOOSE x \in I : TRUE
         IN  results[i][field] + FieldSum(results, I \ {i}, field)

\* C12: for any list of results the statistics have win_count = #(total_return >
\* 0), loss_count = #(total_return <= 0) (an exact zero is a loss), win_count +
\* loss_count = total_signals, max_win_count = #(max_return > 0), and the maximum,
\* minimum and sum of total_return; with no results every derived statistic is
\* zero; the worked example gives 2 wins, 2 losses, win rate 50.0, sum +5, average
\* +1.25, maximum +5 and minimum -2.
C12_StatsCountSignsAndExtrema ==
    /\ statsCall.out # NoneVal =>
          LET st == statsCall.out[1]
              rs == statsCall.results
              I == 1..Len(rs)
          IN  /\ st.total_signals = Len(rs)
              /\ st.win_count = Cardinality({i \in I : rs[i].total_return > 0})
              /\ st.loss_count = Cardinality({i \in I : rs[i].total_return <= 0})
              /\ st.win_count + st.loss_count = st.total_signals
              /\ st.max_win_count = Cardinality({i \in I : rs[i].max_return > 0})
              /\ st.total_return_sum = FieldSum(rs, I, "total_return")
              /\ st.trading_days_count = statsCall.trading_days_count
              /\ rs # <<>> =>
                    /\ \E i \in I : st.max_return = rs[i].total_return
                    /\ \A i \in I : rs[i].total_return <= st.max_return
                    /\ \E i \in I : st.min_return = rs[i].total_return
                    /\ \A i \in I : st.min_return <= rs[i].total_return
              /\ rs = <<>> =>
                    /\ st.win_rate = 0 /\ st.max_win_rate = 0
                    /\ st.win_return_sum = 0 /\ st.loss_return_sum = 0
                    /\ st.max_return_sum = 0 /\ st.avg_return = 0
                    /\ st.max_return = 0 /\ st.min_return = 0
    /\ LET worked == <<ResultOf(<<500, 500>>), ResultOf(<<-200, -200>>),
                     ResultOf(<<300, 300>>), ResultOf(<<-100, -100>>)>>
           ex == CalculateYearlyStats("bbc", 2025, worked, 243)
       IN
          /\ ex.win_count = 2 /\ ex.loss_count = 2 /\ ex.win_rate = 5000
          /\ ex.total_return_sum = 500 /\ ex.avg_return = 125
          /\ ex.max_return = 500 /\ ex.min_return = -200

\* Statistics of a win, an exact zero and a loss: one win, two losses.
C12_Witness ==
    /\ statsCall.out # NoneVal
    /\ Len(statsCall.results) = 3
    /\ statsCall.results[1].total_return = 500
    /\ statsCall.results[2].total_return = 0
    /\ statsCall.results[3].total_return = -200
    /\ statsCall.out[1].win_count = 1
    /\ statsCall.out[1].loss_count = 2
    /\ statsCall.out[1].total_return_sum = 300
    /\ statsCall.out[1].min_return = -200

\* ------------------------------- backtest returns against period returns

\* The frame of the calculate_period_returns call as the backtest sees it: the
\* same rows, each carrying the ts_code column when the frame has one.
BacktestFrame(df) ==
    IF df.has_ts_code
    THEN [i \in 1..Len(df.rows) |->
            [f \in DOMAIN df.rows[i] \cup {"ts_code"} |->
                IF f = "ts_code" THEN SymbolNames[1] ELSE df.rows[i][f]]]
    ELSE df.rows

\* The two calculations agree on what they return for horizon H.
SameReturns(b, c, H) ==
    /\ b.entry_date = c.entry_date
    /\ b.entry_price = c.entry_price
    /\ Some(b.total_return) = c.returns[H]
    /\ Some(b.max_return) = c.max_return

EvaluatedDays(item) ==
    LET df == BarsReadJson(item.df_json) IN
    {d \in ToSet(item.trading_days) :
        /\ \E j \in 1..Len(df) : df[j].trade_date = d
        /\ Cardinality({j \in 1..Len(df) : df[j].trade_date <= d}) >= item.min_days}

\* The detector's answer for a work item on a trading day.
DetectorOn(item, d) ==
    Detector(btCall.det,
             SelectSeq(SortByDate(BarsReadJson(item.df_json)), LAMBDA b : b.trade_date <= d),
             item.min_days)

\* Processing the work item's symbol raises an exception.
SymbolRaises(item) == \E d \in EvaluatedDays(item) : DetectorOn(item, d) = "raise"

\* The results the symbol of a work item has when nothing raises: one per day
\* on which the detector fires and the returns can be computed.
SymbolResults(item) ==
    {r \in {CalculateFutureReturnsFromDf(BarsReadJson(item.df_json), d, item.holding_days) :
               d \in {e \in EvaluatedDays(item) : DetectorOn(item, e) = "true"}} :
        r # NoneVal}

\* C14: in backtest_year an exception raised while a symbol is processed makes
\* that symbol contribute no result and does not abort the run: every work item
\* is collected, every other symbol contributes all its results, and the call
\* returns the statistics of the collected results.
C14_FailingSymbolContributesNothing ==
    /\ bt.pc \in {"idle", "collect", "aggregate", "done"}
    /\ (btResult # NoneVal /\ bt.work # <<>>) =>
          /\ bt.completed = Len(bt.work)
          /\ bt.resolved = 1..Len(bt.work)
          /\ \A i \in 1..Len(bt.work) :
                LET contributed == {r \in ToSet(btResult[1].results) :
                                       r.ts_code = bt.work[i].ts_code}
                IN  IF SymbolRaises(bt.work[i])
                    THEN contributed = {}
                    ELSE {Some(r) : r \in contributed} = SymbolResults(bt.work[i])
          /\ btResult[1].stats.total_signals = Len(btResult[1].results)

\* A backtest in which the first symbol raised on a later day, after a day on
\* which its detector had fired, and the second symbol contributed a result.
C14_Witness ==
    /\ btResult # NoneVal
    /\ Len(bt.work) = 2
    /\ SymbolRaises(bt.work[1])
    /\ \E d \in EvaluatedDays(bt.work[1]) : DetectorOn(bt.work[1], d) = "true"
    /\ ~SymbolRaises(bt.work[2])
    /\ btResult[1].results # <<>>
    /\ \A j \in 1..Len(btResult[1].results) :
          btResult[1].results[j].ts_code = bt.work[2].ts_code

\* ------------------------------------------- scan: running to completion

\* The pool runs every submitted future to its end and the caller's thread
\* goes on after the pool is closed.
SpecScanLive == SpecScan /\ WF_vars(FutureResolves) /\ WF_vars(Persist)

\* C15: a scan that has dispatched work items eventually reaches Done with a
\* ScanResult.
C15_DispatchedScanCompletes ==
    (scan.pc = "collect") ~> (scan.pc = "done" /\ scanResult # NoneVal)

\* ------------------------------------------------- the feature registry

\* The names of the central registry's FEATURES, in order.
RegistryFeatures ==
    <<"bbc", "volume_upper_shadow", "volume_upper_shadow_opz", "volume_upper_shadow_v2",
      "volume_stagnation", "high_retracement", "consolidation_breakout",
      "bullish_cannon", "four_edge", "weak_to_strong">>

\* get_all_feature_names()
GetAllFeatureNames == RegistryFeatures

\* get_feature_by_name(name): the registry entry, or None.
GetFeatureByName(name) ==
    IF \E i \in 1..Len(RegistryFeatures) : RegistryFeatures[i] = name
    THEN Some(name) ELSE NoneVal

\* C16: for every feature of the central registry the scan worker and the
\* backtest worker resolve the name to its detector: a scan work item of the
\* feature is an error only when the detector raises, and the backtest finds the
\* feature's configuration and its detector.
C16_RegistryCoveredByWorkerTables ==
    \A n \in 1..Len(RegistryFeatures) :
        LET f == RegistryFeatures[n]
            work == WorkItems(TsCodes, BatchLoadDailyBars(world, TsCodes), f, MinDays)
        IN  /\ \A i \in 1..Len(work) :
                  ScanSymbolWorker(work[i], world)[3] = "error"
                      => world[work[i].ts_code].det = "raise"
            /\ GetFeatureConfig(f) # NoneVal
            /\ f \in BacktestFeatureFuncs

\* ------------------------------------------------------------ the scan CLI

\* The most comma-separated pieces a --feature argument has.
MaxFeatureArgs == 2

\* scanner.FEATURES, the list the CLI imports, in order.
ScannerFeatures ==
    <<"bbc", "volume_upper_shadow", "volume_stagnation", "high_retracement",
      "consolidation_breakout", "bullish_cannon">>

\* --end-date values, character by character: 8 digits, 7 digits, 8 characters
\* with a dash, 9 digits.
EndDates ==
    {<<"2", "0", "2", "5", "1", "2", "2", "0">>,
     <<"2", "0", "2", "5", "1", "2", "2">>,
     <<"2", "0", "2", "5", "-", "1", "2", "2">>,
     <<"2", "0", "2", "5", "1", "2", "2", "0", "1">>}

\* str.isdigit(): every character is a digit and there is at least one.
IsDigit(str) ==
    /\ Len(str) > 0
    /\ \A i \in 1..Len(str) : str[i] \in {"0", "1", "2", "3", "4", "5", "6", "7", "8", "9"}

\* The pieces feature_arg.split(",") yields: names with or without blanks
\* around them, an empty piece, a piece of blanks, an unknown name.
RawNames == {"bbc", " four_edge ", "bullish_cannon", "", " ", "macd"}

\* name.strip()
Strip(name) ==
    CASE name = " four_edge " -> "four_edge"
      [] name = " " -> ""
      [] OTHER -> name

\* --feature: absent (None), or its split(",") pieces.
FeatureArgs ==
    {NoneVal} \cup {Some(x) : x \in UNION {[1..n -> RawNames] : n \in 1..MaxFeatureArgs}}

\* resolve_features: the features to scan, and the names warned about.
ResolveFeatures(feature_arg) ==
    IF feature_arg = NoneVal THEN [features |-> ScannerFeatures, warned |-> <<>>]
    ELSE LET stripped == [i \in 1..Len(feature_arg[1]) |-> Strip(feature_arg[1][i])]
             feature_names == SelectSeq(stripped, LAMBDA x : x # "")
             valid_feature_names == ToSet(GetAllFeatureNames)
         IN  [features |-> SelectSeq(feature_names,
                               LAMBDA x : x \in valid_feature_names
                                          /\ GetFeatureByName(x) # NoneVal),
              warned |-> SelectSeq(feature_names,
                             LAMBDA x : x \notin valid_feature_names
                                        \/ GetFeatureByName(x) = NoneVal)]

InitCli ==
    /\ hot = [hk \in HotKeys |-> NoneVal]
    /\ cold = [k \in CacheKeys |-> NoneVal]
    /\ last = [op |-> "init", key |-> <<"bbc", "20251220">>, client |-> FALSE,
               arg |-> NoneVal, replaced |-> FALSE, hot_hit |-> FALSE, ret |-> NoneVal,
               raised |-> "none"]
    /\ lastPut = [k \in CacheKeys |-> NoPut]
    /\ world = <<>>
    /\ call = NoneVal
    /\ scan = [Idle EXCEPT !.pc = "off"]
    /\ scanResult = NoneVal
    /\ cacheOps = <<>>
    /\ periodCall = NoneVal
    /\ statsCall = NoneVal
    /\ procs = NoneVal
    /\ btCall = NoneVal
    /\ bt = [BtIdle EXCEPT !.pc = "off"]
    /\ btResult = NoneVal
    /\ \E d \in EndDates, f \in FeatureArgs :
          cliRun = [pc |-> "start", end_date |-> d, feature |-> f,
                    features_to_scan |-> <<>>, warned |-> <<>>, scan_calls |-> <<>>,
                    exit |-> NoneVal]

\* main() up to the scan loop: the date check, resolve_features, the empty
\* check.
CliMain ==
    /\ cliRun.pc = "start"
    /\ IF Len(cliRun.end_date) # 8 \/ ~IsDigit(cliRun.end_date)
       THEN cliRun' = [cliRun EXCEPT !.pc = "exit", !.exit = Some(1)]
       ELSE LET r == ResolveFeatures(cliRun.feature) IN
            IF r.features = <<>>
            THEN cliRun' = [cliRun EXCEPT !.pc = "exit", !.exit = Some(1),
                                          !.warned = r.warned]
            ELSE cliRun' = [cliRun EXCEPT !.pc = "scanning", !.warned = r.warned,
                                          !.features_to_scan = r.features]
    /\ UNCHANGED <<cacheVars, scanVars, periodCall, statsCall, procs, btVars>>

\* One turn of scan_features' loop: scan_feature is called for the next
\* feature and returns a ScanResult, or raises (nothing in main catches it).
CliScanFeature ==
    /\ cliRun.pc = "scanning"
    /\ Len(cliRun.scan_calls) < Len(cliRun.features_to_scan)
    /\ \E outcome \in {"result", "raised"} :
          LET feature == cliRun.features_to_scan[Len(cliRun.scan_calls) + 1] IN
          cliRun' = [cliRun EXCEPT !.scan_calls = Append(@, feature),
                                   !.pc = IF outcome = "raised" THEN "raised" ELSE @]
    /\ UNCHANGED <<cacheVars, scanVars, periodCall, statsCall, procs, btVars>>

\* The loop is over: the tables are displayed and main returns 0.
CliReturn ==
    /\ cliRun.pc = "scanning"
    /\ Len(cliRun.scan_calls) = Len(cliRun.features_to_scan)
    /\ cliRun' = [cliRun EXCEPT !.pc = "exit", !.exit = Some(0)]
    /\ UNCHANGED <<cacheVars, scanVars, periodCall, statsCall, procs, btVars>>

NextCli == CliMain \/ CliScanFeature \/ CliReturn

SpecCli == InitCli /\ [][NextCli]_vars

\* The requested names that are valid, in the order given; every registered
\* feature when --feature is absent.
ValidRequested(feature_arg) ==
    IF feature_arg = NoneVal THEN GetAllFeatureNames
    ELSE SelectSeq([i \in 1..Len(feature_arg[1]) |-> Strip(feature_arg[1][i])],
                   LAMBDA x : \E n \in 1..Len(GetAllFeatureNames) : GetAllFeatureNames[n] = x)

\* C17: when main returns, it has called scan once per valid requested feature
\* name, in order (every registered feature when --feature is absent); it
\* returns 1 without any scan when --end-date is not 8 digits or no valid name
\* remains, and 0 otherwise.
C17_OneScanPerValidRequestedFeature ==
    cliRun.pc = "exit" =>
        IF Len(cliRun.end_date) # 8 \/ ~IsDigit(cliRun.end_date)
           \/ ValidRequested(cliRun.feature) = <<>>
        THEN cliRun.exit = Some(1) /\ cliRun.scan_calls = <<>>
        ELSE cliRun.exit = Some(0) /\ cliRun.scan_calls = ValidRequested(cliRun.feature)

\* ------------------------------------------------- cache: the two tiers

\* Single caller using only get, put and the hot entries' expiry.
NextCacheNoDelete == Get({0}) \/ Put({0}) \/ ExpireHot

SpecCacheNoDelete == InitCache /\ [][NextCacheNoDelete]_vars

\* C18: whenever the hot tier holds an entry for a key, the cold tier holds an
\* entry for the same key with the same hit list.
C18_HotEntryEqualsColdEntry ==
    \A k \in CacheKeys :
        RedisGet(hot, k) # NoneVal =>
            GetFeatureResult(cold, k) = Some(JsonLoads(RedisGet(hot, k)[1]))

\* Single caller, either tier may fail during a call.
NextCacheFaults == Get(0..2) \/ Put(0..1) \/ ExpireHot

SpecCacheFaults == InitCache /\ [][NextCacheFaults]_vars

\* C19: put writes the cold tier first and the hot tier afterwards: when the
\* cold write fails the error reaches the caller and neither tier has changed;
\* when the hot write fails the cold tier already holds the list; with no
\* failure both tiers hold it.
C19_PutWritesColdBeforeHot ==
    \A k \in CacheKeys, L \in HitLists, client \in BOOLEAN :
        LET coldFails == SetFeatureCache(hot, cold, k, L, client, 0, 1)
            hotFails == SetFeatureCache(hot, cold, k, L, TRUE, 1, 0)
            noFault == SetFeatureCache(hot, cold, k, L, TRUE, 0, 0)
        IN  /\ coldFails.raised = "cold"
            /\ coldFails.hot = hot /\ coldFails.cold = cold
            /\ hotFails.raised = "hot"
            /\ GetFeatureResult(hotFails.cold, k) = Some(L)
            /\ hotFails.hot = hot
            /\ noFault.raised = "none"
            /\ GetFeatureResult(noFault.cold, k) = Some(L)
            /\ RedisGet(noFault.hot, k) = Some(JsonDumps(L))

\* A put given a client failed on its cold write while the hot tier held another
\* list for the key: both tiers still hold that other list.
C19_Witness ==
    /\ last.op = "put" /\ last.client /\ last.raised = "cold"
    /\ RedisGet(hot, last.key) # NoneVal
    /\ Some(JsonLoads(RedisGet(hot, last.key)[1])) # last.arg
    /\ GetFeatureResult(cold, last.key) = Some(JsonLoads(RedisGet(hot, last.key)[1]))

\* C20: a get that finds the key in the hot tier returns the hot tier's list
\* whether or not the cold tier's read or write of the repair fails, and with
\* no failure a cold tier lacking the key holds the list afterwards.
C20_HotHitReturnsDespiteRepairFailure ==
    \A k \in CacheKeys, cf \in 0..2 :
        RedisGet(hot, k) # NoneVal =>
            LET o == GetFeatureCache(hot, cold, k, TRUE, 0, cf)
                hits == JsonLoads(RedisGet(hot, k)[1])
            IN  /\ o.raised = "none"
                /\ o.ret = Some(hits)
                /\ (cf = 0 /\ GetFeatureResult(cold, k) = NoneVal)
                      => GetFeatureResult(o.cold, k) = Some(hits)

\* ------------------------------------------------- cache: hot-tier miss

\* C21: a get that misses the hot tier returns the cold tier's list when the
\* cold tier has the key and then the hot tier holds that same list (written by
\* the set that carries the expiry, so ExpireHot can remove it again); when
\* neither tier has the key it returns absent and leaves both tiers as they
\* were.  After such a get, and until the next call, the cold tier holds what
\* was returned and the hot tier holds that list or has lost it to expiry.
C21_HotMissReadsColdAndRepopulates ==
    /\ \A k \in CacheKeys :
          ~Truthy(RedisGet(hot, k)) =>
              LET o == GetFeatureCache(hot, cold, k, TRUE, 0, 0) IN
              /\ o.raised = "none"
              /\ o.cold = cold
              /\ o.ret = GetFeatureResult(cold, k)
              /\ IF GetFeatureResult(cold, k) # NoneVal
                 THEN /\ RedisGet(o.hot, k) # NoneVal
                      /\ JsonLoads(RedisGet(o.hot, k)[1]) = GetFeatureResult(cold, k)[1]
                      /\ \A k2 \in CacheKeys \ {k} : RedisGet(o.hot, k2) = RedisGet(hot, k2)
                 ELSE o.hot = hot
    /\ (last.op = "get" /\ last.client /\ ~last.hot_hit /\ last.raised = "none") =>
          /\ last.ret = GetFeatureResult(cold, last.key)
          /\ RedisGet(hot, last.key) # NoneVal =>
                (last.ret # NoneVal /\ RedisGet(hot, last.key) = Some(JsonDumps(last.ret[1])))

\* A get with a client missed the hot tier, whose entry had expired, and
\* returned the two hits of the cold tier, which the hot tier holds again.
C21_Witness ==
    /\ last.op = "get" /\ last.client /\ ~last.hot_hit /\ last.raised = "none"
    /\ last.ret # NoneVal
    /\ Len(last.ret[1]) = 2
    /\ lastPut[last.key] = last.ret
    /\ RedisGet(hot, last.key) = Some(JsonDumps(last.ret[1]))

\* ------------------------------------------------- scan: worker outcomes

\* The world with the detector's behaviour on symbol s replaced by d.
WithDetector(w, s, d) == [w EXCEPT ![s] = [rows |-> w[s].rows, det |-> d]]

HitSymbols == {s \in InClass("ok") : world[s].det = "true"}

\* No put has been made while work items are unresolved or being collected,
\* and a scan makes at most one put, as its last cache call.
NoPutBeforeCollected ==
    /\ scan.pc \in {"collect", "persist"} => "put" \notin ToSet(cacheOps)
    /\ \A i \in 1..Len(cacheOps) : cacheOps[i] = "put" => i = Len(cacheOps)

\* A step that changes a tier is the lookup's repair of a scan served from the
\* cache, which dispatches nothing, or the one put of the complete hit list
\* made when every work item has resolved.
MutationIsRepairOrFinalPut ==
    (hot' # hot \/ cold' # cold) =>
        \/ /\ cacheOps' = <<"get">>
           /\ scanResult' # NoneVal /\ scanResult'[1].from_cache
           /\ scan'.work = <<>>
        \/ /\ cacheOps' # <<>> /\ cacheOps'[Len(cacheOps')] = "put"
           /\ "put" \notin ToSet(cacheOps)
           /\ scan'.completed = Len(scan'.work)
           /\ cold'[ScanKey] # NoneVal
           /\ ToSet(JsonLoads(cold'[ScanKey][1])) = HitSymbols

\* C23: the collection of worker results never touches a cache tier; the only
\* cache mutation of a scan that dispatches work is one put by scan_feature,
\* made after every work item has resolved and carrying the complete hit list.
C23_OnlyMutationIsFinalPut == []NoPutBeforeCollected /\ [][MutationIsRepairOrFinalPut]_vars

\* A parallel scan of three work items, two of them hits, has put its hit list
\* after the third resolved; the cache held an older list until then.
C23_Witness ==
    /\ scan.pc = "done" /\ call[1].args.parallel
    /\ Len(scan.work) = 3 /\ scan.completed = 3
    /\ cacheOps = <<"put">>
    /\ Len(scan.signals) = 2
    /\ GetFeatureResult(cold, ScanKey) = Some(scan.signals)
    /\ call[1].held.cold
    /\ scan.signals # StaleHits

\* ------------------------------------------------- progress callbacks

\* C24: the progress callback has been invoked once per resolved work item,
\* its completed count being the number of items resolved so far, and when the
\* last item has resolved the count equals the total the callback is given
\* (len(work_items) in the parallel scan, total_stocks in backtest_year).
C24_ProgressReachesItsTotal ==
    /\ scan.pc \in {"collect", "persist", "done"} =>
          /\ scan.completed = Cardinality(scan.resolved)
          /\ scan.pc # "collect" => scan.completed = Len(scan.work)
    /\ (bt.pc \in {"collect", "aggregate", "done"} /\ bt.completed > 0) =>
          /\ bt.progress[1] = Cardinality(bt.resolved)
          /\ bt.pc # "collect" => bt.progress[1] = bt.progress[2]

\* ------------------------------------------- backtest: no look-ahead

\* The bars of a work item in date order, and those dated after day d.
ItemBars(item) == SortByDate(BarsReadJson(item.df_json))

BarsAfter(item, d) == SelectSeq(ItemBars(item), LAMBDA b : b.trade_date > d)

\* C25: every result of backtest_year has a signal day on which its symbol has
\* a bar and at least min_days bars dated on or before it, and the detector
\* judged that day from the bars up to it (a detector that looks at the
\* window's last bar saw the signal day's bar, one that counts the window's rows
\* counted no later bar), while entry and exit are the first and the
\* holding_days-th bar after the signal day in the symbol's full series.  A
\* detector that always fires yields a result on every such day that has
\* enough later bars.
C25_DetectorSeesNoFutureBar ==
    (btResult # NoneVal /\ bt.work # <<>>) =>
        \A i \in 1..Len(bt.work) :
            LET item == bt.work[i]
                df == ItemBars(item)
                rs == {r \in ToSet(btResult[1].results) : r.ts_code = item.ts_code}
                upto(d) == {j \in 1..Len(df) : df[j].trade_date <= d}
            IN  /\ \A r \in rs :
                      /\ r.signal_date \in ToSet(item.trading_days)
                      /\ \E j \in 1..Len(df) :
                            /\ df[j].trade_date = r.signal_date
                            /\ btCall.det = "up" => df[j].close > df[j].open
                      /\ Cardinality(upto(r.signal_date)) >= item.min_days
                      /\ btCall.det = "raise_late" =>
                            Cardinality(upto(r.signal_date)) <= item.min_days
                      /\ btCall.det = "raise_long" =>
                            Cardinality(upto(r.signal_date)) <= item.min_days + 1
                      /\ Len(BarsAfter(item, r.signal_date)) >= item.holding_days
                      /\ r.entry_date = BarsAfter(item, r.signal_date)[1].trade_date
                      /\ r.exit_date =
                            BarsAfter(item, r.signal_date)[item.holding_days].trade_date
                      /\ r.entry_date > r.signal_date
                /\ btCall.det = "always" =>
                      \A d \in ToSet(item.trading_days) :
                          (/\ \E j \in 1..Len(df) : df[j].trade_date = d
                           /\ Cardinality(upto(d)) >= item.min_days
                           /\ Len(BarsAfter(item, d)) >= item.holding_days
                           /\ BarsAfter(item, d)[1].open > 0)
                              => \E r \in rs : r.signal_date = d

\* A backtest with the detector that looks at the window's last bar: the first
\* symbol has a result for the rising second day, entered on the third, and
\* none for the falling third day although a rising bar follows it.
C25_Witness ==
    /\ btResult # NoneVal
    /\ btCall.det = "up" /\ btCall.holding_days = 1 /\ btCall.table[1] = "full"
    /\ \E r \in ToSet(btResult[1].results) :
          /\ r.ts_code = BtCodes[1]
          /\ r.signal_date = DateTape[2] /\ r.entry_date = DateTape[3]
    /\ \A r \in ToSet(btResult[1].results) :
          r.ts_code = BtCodes[1] => r.signal_date # DateTape[3]
    /\ Len(BarsAfter(bt.work[1], DateTape[3])) = 1

\* ------------------------------------------- cache: concurrent callers

\* The processes calling the cache at the same time.
NumProcs == 2

\* The key the concurrent calls are about.
SharedKey == <<"bbc", "20251220">>

\* The list the tiers may hold before the calls.
EarlierHits == <<SymbolNames[2]>>

\* The calls a process makes: get(feature, date) or put(feature, date, L), each
\* with a client.
ProcCalls ==
    {[op |-> "get", arg |-> <<>>]}
        \cup {[op |-> "put", arg |-> L] : L \in {<<>>, <<SymbolNames[1]>>}}

NewProc(c) == [op |-> c.op, arg |-> c.arg, pc |-> "start", hot_missed |-> FALSE, result |-> NoneVal]

InitConcurrent ==
    /\ \E h, c \in {NoneVal, Some(JsonDumps(EarlierHits))} :
          /\ hot = [hk \in HotKeys |-> IF hk = FeatureCacheKey(SharedKey) THEN h ELSE NoneVal]
          /\ cold = [k \in CacheKeys |-> IF k = SharedKey THEN c ELSE NoneVal]
    /\ last = [op |-> "init", key |-> <<"bbc", "20251220">>, client |-> FALSE,
               arg |-> NoneVal, replaced |-> FALSE, hot_hit |-> FALSE, ret |-> NoneVal,
               raised |-> "none"]
    /\ lastPut = [k \in CacheKeys |-> NoPut]
    /\ world = <<>>
    /\ call = NoneVal
    /\ scan = [Idle EXCEPT !.pc = "off"]
    /\ scanResult = NoneVal
    /\ cacheOps = <<>>
    /\ periodCall = NoneVal
    /\ statsCall = NoneVal
    /\ cliRun = NoneVal
    /\ btCall = NoneVal
    /\ bt = [BtIdle EXCEPT !.pc = "off"]
    /\ btResult = NoneVal
    /\ \E cs \in [1..NumProcs -> ProcCalls] : procs = [p \in 1..NumProcs |-> NewProc(cs[p])]

ConcurrentFrame == UNCHANGED <<last, lastPut, scanVars, periodCall, statsCall, cliRun, btVars>>

\* set_feature_cache, step 1: save_feature_result commits.
PutColdWrite(p) ==
    /\ procs[p].op = "put" /\ procs[p].pc = "start"
    /\ cold' = SaveFeatureResult(cold, SharedKey, procs[p].arg)
    /\ procs' = [procs EXCEPT ![p].pc = "cold_written"]
    /\ UNCHANGED hot
    /\ ConcurrentFrame

\* set_feature_cache, step 2: client.set.
PutHotWrite(p) ==
    /\ procs[p].pc = "cold_written"
    /\ hot' = RedisSet(hot, SharedKey, JsonDumps(procs[p].arg))
    /\ procs' = [procs EXCEPT ![p].pc = "done"]
    /\ UNCHANGED cold
    /\ ConcurrentFrame

\* get_feature_cache, step 1: client.get.
GetHotRead(p) ==
    /\ procs[p].op = "get" /\ procs[p].pc = "start"
    /\ LET cached == RedisGet(hot, SharedKey) IN
       procs' = IF Truthy(cached)
                THEN [procs EXCEPT ![p].pc = "hot_hit", ![p].result = Some(JsonLoads(cached[1]))]
                ELSE [procs EXCEPT ![p].pc = "hot_miss", ![p].hot_missed = TRUE]
    /\ UNCHANGED <<hot, cold>>
    /\ ConcurrentFrame

\* get_feature_cache, step 2 after a hot hit: get_feature_result for the backfill.
GetBackfillCheck(p) ==
    /\ procs[p].pc = "hot_hit"
    /\ procs' = [procs EXCEPT ![p].pc = IF GetFeatureResult(cold, SharedKey) = NoneVal
                                        THEN "backfill" ELSE "done"]
    /\ UNCHANGED <<hot, cold>>
    /\ ConcurrentFrame

\* get_feature_cache, the backfill's save_feature_result, then the return.
GetBackfillSave(p) ==
    /\ procs[p].pc = "backfill"
    /\ cold' = SaveFeatureResult(cold, SharedKey, procs[p].result[1])
    /\ procs' = [procs EXCEPT ![p].pc = "done"]
    /\ UNCHANGED hot
    /\ ConcurrentFrame

\* get_feature_cache, step 3 after a hot miss: get_feature_result.
GetColdRead(p) ==
    /\ procs[p].pc = "hot_miss"
    /\ LET found == GetFeatureResult(cold, SharedKey) IN
       procs' = [procs EXCEPT ![p].result = found,
                              ![p].pc = IF found # NoneVal THEN "populate" ELSE "done"]
    /\ UNCHANGED <<hot, cold>>
    /\ ConcurrentFrame

\* get_feature_cache, step 4: client.set of the list read from SQLite, then the
\* return.
GetHotPopulate(p) ==
    /\ procs[p].pc = "populate"
    /\ hot' = RedisSet(hot, SharedKey, JsonDumps(procs[p].result[1]))
    /\ procs' = [procs EXCEPT ![p].pc = "done"]
    /\ UNCHANGED cold
    /\ ConcurrentFrame

NextConcurrent ==
    \E p \in 1..NumProcs :
        \/ PutColdWrite(p)
        \/ PutHotWrite(p)
        \/ GetHotRead(p)
        \/ GetBackfillCheck(p)
        \/ GetBackfillSave(p)
        \/ GetColdRead(p)
        \/ GetHotPopulate(p)

SpecConcurrent == InitConcurrent /\ [][NextConcurrent]_vars

\* Two of the processes put different lists, or one puts and another gets and
\* misses the hot tier.
PutsOrPutAndMissingGet ==
    \E p, q \in 1..NumProcs :
        /\ p # q
        /\ procs[p].op = "put"
        /\ \/ procs[q].op = "put" /\ procs[q].arg # procs[p].arg
           \/ procs[q].op = "get" /\ procs[q].hot_missed

\* C26: when two puts of different lists, or a put and a get that missed the hot
\* tier, run concurrently on one key, then after all calls have completed a hot
\* entry for the key equals the cold entry.
C26_TiersAgreeAfterConcurrentCalls ==
    (PutsOrPutAndMissingGet /\ \A p \in 1..NumProcs : procs[p].pc = "done") =>
        (RedisGet(hot, SharedKey) # NoneVal =>
            GetFeatureResult(cold, SharedKey) = Some(JsonLoads(RedisGet(hot, SharedKey)[1])))

\* ------------------------------------------- cache: a put half done

\* C27: when the hot tier holds a list for a key and a put of L for that key
\* writes the cold tier but fails on the hot tier, the next get for the key
\* returns L.
C27_GetAfterFailedHotWriteReturnsNewList ==
    \A k \in CacheKeys, L \in HitLists :
        RedisGet(hot, k) # NoneVal =>
            LET put == SetFeatureCache(hot, cold, k, L, TRUE, 1, 0)
                get == GetFeatureCache(put.hot, put.cold, k, TRUE, 0, 0)
            IN  (put.raised = "hot" /\ GetFeatureResult(put.cold, k) = Some(L))
                    => (get.raised = "none" /\ get.ret = Some(L))

\* ------------------------------------------- cache: get after delete

\* C28: after delete_feature_result deleted the row of a key (it returns True
\* exactly when the row was there), a get for the key, with or without a
\* client, returns absent and the row is still absent from the cold tier.
C28_GetAfterDeleteIsAbsent ==
    \A k \in CacheKeys, client \in BOOLEAN :
        cold[k] # NoneVal =>
            LET deleted == DeleteFeatureResult(cold, k)
                get == GetFeatureCache(hot, deleted, k, client, 0, 0)
            IN  /\ GetFeatureResult(deleted, k) = NoneVal
                /\ get.ret = NoneVal
                /\ GetFeatureResult(get.cold, k) = NoneVal

\* ------------------------------------------- backtest: max and total return

\* The backtest results of the called frame for every holding horizon that can
\* be priced, in horizon order.
FrameResults ==
    LET b(H) == CalculateFutureReturnsFromDf(
                    BacktestFrame(periodCall.df), periodCall.signal_date, H)
        priced == SelectSeq([H \in 1..NumBars |-> H], LAMBDA H : b(H) # NoneVal)
    IN  [n \in 1..Len(priced) |-> b(priced[n])[1]]

\* C29: every backtest result has max_return >= total_return, and the yearly
\* statistics of such results have max_win_count >= win_count and
\* max_return_sum >= total_return_sum.
C29_MaxReturnAtLeastTotalReturn ==
    LET st == CalculateYearlyStats("bbc", 2025, FrameResults, 1) IN
    /\ \A n \in 1..Len(FrameResults) :
          FrameResults[n].max_return >= FrameResults[n].total_return
    /\ st.max_win_count >= st.win_count
    /\ st.max_return_sum >= st.total_return_sum
    /\ st.total_signals = Len(FrameResults)

\* A frame whose close peaks on the entry day and falls below the entry price
\* on the next: the horizon-2 result loses while its max_return gains, and the
\* statistics count one win and two max wins.
C29_Witness ==
    /\ periodCall.out # NoneVal
    /\ Len(FrameResults) >= 2
    /\ FrameResults[1].total_return > 0
    /\ FrameResults[2].total_return < 0
    /\ FrameResults[2].max_return = FrameResults[1].total_return
    /\ CalculateYearlyStats("bbc", 2025, FrameResults, 1).win_count = 1
    /\ CalculateYearlyStats("bbc", 2025, FrameResults, 1).max_win_count >= 2

\* ------------------------------------------- scan: the two paths

\* The ScanResult of the parallel path for feature f over the preloaded map of
\* the universe, the futures resolving in submission order.
ParallelScanOf(f) ==
    LET work == WorkItems(TsCodes, BatchLoadDailyBars(world, TsCodes), f, MinDays)
        missing == Len(TsCodes) - Len(work)
    IN  IF Len(work) = 0 THEN ScanResult(<<>>, FALSE, 0, missing, 0)
        ELSE ParallelResult(SerialCollect(
                 [Idle EXCEPT !.work = work, !.missing = missing, !.skipped = missing],
                 1, world))

\* Two ScanResults with the same hit set and the same counts.
SameScan(a, b) ==
    /\ ToSet(a.signals) = ToSet(b.signals)
    /\ a.scanned = b.scanned /\ a.skipped = b.skipped /\ a.errors = b.errors

\* C30: for every registered feature, over the same universe and price data,
\* the sequential path and the parallel path give the same hit set and the
\* same scanned, skipped and errors counts, the symbols without price data
\* being among the skipped on both; a scan that ran gave those values.
C30_SequentialAndParallelAgree ==
    /\ \A n \in 1..Len(RegistryFeatures) :
          /\ SameScan(ParallelScanOf(RegistryFeatures[n]), SequentialResult(TsCodes, world))
          /\ ParallelScanOf(RegistryFeatures[n]).skipped
                = Cardinality(InClass("absent")) + Cardinality(InClass("skip"))
    /\ SequentialResult(TsCodes, world).skipped
          = Cardinality(InClass("absent")) + Cardinality(InClass("skip"))
    /\ Fresh => SameScan(scanResult[1], SequentialResult(TsCodes, world))

====
